---- MODULE Spec2Model ----
(***************************************************************************)
(* A model of the floorplanning optimizer of floorplan_core.py and         *)
(* floorplan_algorithm.py: calculate_floorplan and everything it calls.    *)
(*                                                                         *)
(* Representation.                                                         *)
(*  - Block objects live in `heap`, a sequence of records indexed by       *)
(*    object identity; a list of blocks is a sequence of identities, so    *)
(*    that two lists can share objects exactly where the code shares them. *)
(*  - Coordinates and dimensions are integers.  Quantities the code        *)
(*    computes with halves (centres, mid points) are compared doubled.     *)
(*  - A cost is held doubled (cost2 = 2 * cost): with integer geometry and *)
(*    a max_aspect_ratio given in halves every cost is a multiple of 1/2.  *)
(*  - max_aspect_ratio is held in halves (4 is the default 2.0).           *)
(*  - The temperature is held in units of 1/100000.                        *)
(*  - The random generator is a nondeterministic choice.                   *)
(***************************************************************************)
EXTENDS Integers, Sequences, FiniteSets, TLC

VARIABLES
    pc,                 \* position inside calculate_floorplan
    heap,               \* object store: identity -> Block
    blocks,             \* the caller's list (identities)
    max_aspect_ratio,   \* the caller's bound, in halves
    blocks_copy,        \* calculate_floorplan: blocks_copy
    neighbor_groups,    \* _get_initial_solution: neighbor_groups
    tried,              \* _get_initial_solution: what each strategy produced
    initial_floorplan,  \* calculate_floorplan: initial_floorplan
    current,            \* _simulated_annealing: current
    current_cost,       \* doubled
    best,               \* _simulated_annealing: best
    best_cost,          \* doubled
    temperature,        \* in 1/100000
    iter,               \* iterations done at this temperature
    step,               \* temperature steps done
    last,               \* what the last annealing iteration did
    initial_temp,       \* SA parameter, fixed at Init, in 1/100000
    iterations_per_temp,\* SA parameter, fixed at Init
    post,               \* what the post-pass did
    result              \* what calculate_floorplan returned or raised

vars == <<pc, heap, blocks, max_aspect_ratio, blocks_copy, neighbor_groups,
          tried, initial_floorplan, current, current_cost, best, best_cost,
          temperature, iter, step, last, initial_temp, iterations_per_temp,
          post, result>>

(***************************************************************************)
(* Helpers on sequences and numbers                                        *)
(***************************************************************************)
Max(a, b) == IF a >= b THEN a ELSE b

Min(a, b) == IF a <= b THEN a ELSE b

Abs(a) == IF a < 0 THEN -a ELSE a

SetMax(S) == CHOOSE m \in S : \A k \in S : k <= m

SetMin(S) == CHOOSE m \in S : \A k \in S : m <= k

Range(s) == {s[i] : i \in 1..Len(s)}

RECURSIVE SumSeq(_)
SumSeq(s) == IF s = <<>> THEN 0 ELSE Head(s) + SumSeq(Tail(s))

MaxSeq(s) == SetMax(Range(s))

Map(s, Op(_)) == [i \in 1..Len(s) |-> Op(s[i])]

\* A loop threads a state through its iterations.  Evaluated(v) is TRUE; in
\* the guard of a loop it has TLC evaluate the state where the loop reaches
\* it, in statement order, not nested in the iterations that follow.
Evaluated(v) == v = v

\* The permutations of a sequence's positions, as sequences of positions.
Perms(n) == {p \in [1..n -> 1..n] : \A i, j \in 1..n : i # j => p[i] # p[j]}

(***************************************************************************)
(* floorplan_core.py: Block                                                *)
(***************************************************************************)
None == ""

DontCare == "don't care"

\* Block.__init__
NewBlock(name, width, height, preferred_location, neighbor) ==
    [name |-> name, original_width |-> width, original_height |-> height,
     width |-> width, height |-> height,
     preferred_location |-> preferred_location, neighbor |-> neighbor,
     x |-> 0, y |-> 0, rotated |-> FALSE]

\* A rotation that exchanges the dimensions and does not record it.
rotate_unrecorded(b) ==
    [b EXCEPT !.width = b.height, !.height = b.width]

\* A rotation that sets the flag instead of inverting it.
rotate_sets_flag(b) ==
    [b EXCEPT !.width = b.height, !.height = b.width, !.rotated = TRUE]

\* Block.rotate
rotate(b) ==
    [b EXCEPT !.width = b.height, !.height = b.width, !.rotated = ~b.rotated]

\* Block.reset_rotation
reset_rotation(b) == IF b.rotated THEN rotate(b) ELSE b

\* Block.get_area
get_area(b) == b.width * b.height

\* The rectangle test that Block.overlaps and the placement helpers share.
RectOverlap(x1, y1, w1, h1, x2, y2, w2, h2) ==
    ~(x1 + w1 <= x2 \/ x2 + w2 <= x1 \/ y1 + h1 <= y2 \/ y2 + h2 <= y1)

\* Block.overlaps
overlaps(a, b) ==
    ~(a.x + a.width <= b.x \/ b.x + b.width <= a.x \/
      a.y + a.height <= b.y \/ b.y + b.height <= a.y)

\* An abutment test that takes touching projections for overlapping ones.
abuts_touching(a, b) ==
    \/ /\ (a.x + a.width = b.x \/ b.x + b.width = a.x)
       /\ ~(a.y + a.height < b.y \/ b.y + b.height < a.y)
    \/ /\ (a.y + a.height = b.y \/ b.y + b.height = a.y)
       /\ ~(a.x + a.width < b.x \/ b.x + b.width < a.x)

\* Block.abuts
abuts(a, b) ==
    LET horizontal_abut ==
            /\ (a.x + a.width = b.x \/ b.x + b.width = a.x)
            /\ ~(a.y + a.height <= b.y \/ b.y + b.height <= a.y)
        vertical_abut ==
            /\ (a.y + a.height = b.y \/ b.y + b.height = a.y)
            /\ ~(a.x + a.width <= b.x \/ b.x + b.width <= a.x)
    IN horizontal_abut \/ vertical_abut

(***************************************************************************)
(* floorplan_core.py: FloorPlan.  A list of block values stands for        *)
(* floorplan.blocks read through the heap.                                 *)
(***************************************************************************)
\* FloorPlan.__init__
FloorPlan == [blocks |-> <<>>, bounding_width |-> 0, bounding_height |-> 0]

\* FloorPlan.update_bounding_box: the pair it stores.
bounding_width(bs) ==
    IF bs = <<>> THEN 0 ELSE SetMax({bs[i].x + bs[i].width : i \in 1..Len(bs)})

bounding_height(bs) ==
    IF bs = <<>> THEN 0 ELSE SetMax({bs[i].y + bs[i].height : i \in 1..Len(bs)})

\* FloorPlan.has_overlaps
has_overlaps(bs) ==
    \E i \in 1..Len(bs) : \E j \in (i + 1)..Len(bs) : overlaps(bs[i], bs[j])

\* The block values of a list of identities, and their write-back.
Vals(h, ids) == [i \in 1..Len(ids) |-> h[ids[i]]]

Store(h, ids, bs) ==
    [k \in 1..Len(h) |->
        IF \E i \in 1..Len(ids) : ids[i] = k
        THEN bs[CHOOSE i \in 1..Len(ids) : ids[i] = k]
        ELSE h[k]]

\* copy.deepcopy of a list of blocks: fresh objects at the end of the heap.
DeepCopyIds(h, ids) == [i \in 1..Len(ids) |-> Len(h) + i]

DeepCopyHeap(h, ids) == h \o Vals(h, ids)

(***************************************************************************)
(* floorplan_algorithm.py: _group_neighbors.  A working list `bs` of block *)
(* values is fixed; a group is a sequence of positions in it.  Names are   *)
(* unique (the caller's invariant), so a name stands for one position.     *)
(***************************************************************************)
HasName(bs, name) == \E i \in 1..Len(bs) : bs[i].name = name

IndexOfName(bs, name) == CHOOSE i \in 1..Len(bs) : bs[i].name = name

\* depended_by[name]: the names of the blocks that name it, in list order.
RECURSIVE depended_by(_, _, _)
depended_by(bs, name, i) ==
    IF i > Len(bs) THEN <<>>
    ELSE (IF bs[i].neighbor # None /\ bs[i].neighbor = name
          THEN <<bs[i].name>> ELSE <<>>) \o depended_by(bs, name, i + 1)

\* A root search that does not walk: every block is its own root.
own_root(bs, cur, chain_members) == cur

\* The walk back through depends_on to the root of the chain.
RECURSIVE FindRoot(_, _, _)
FindRoot(bs, cur, chain_members) ==
    IF bs[cur].neighbor = None THEN cur
    ELSE LET neighbor_name == bs[cur].neighbor IN
         IF neighbor_name \in chain_members THEN cur
         ELSE IF HasName(bs, neighbor_name)
              THEN FindRoot(bs, IndexOfName(bs, neighbor_name),
                            chain_members \cup {neighbor_name})
              ELSE cur

\* The breadth-first collection from the root through depended_by.
RECURSIVE CollectGroup(_, _, _, _)
CollectGroup(bs, to_process, used, group) ==
    IF to_process = <<>> THEN [group |-> group, used |-> used]
    ELSE LET current_name == Head(to_process) IN
         IF current_name \in used \/ ~HasName(bs, current_name)
         THEN CollectGroup(bs, Tail(to_process), used, group)
         ELSE CollectGroup(bs,
                           Tail(to_process) \o depended_by(bs, current_name, 1),
                           used \cup {current_name},
                           Append(group, IndexOfName(bs, current_name)))

RECURSIVE GroupLoop(_, _, _, _)
GroupLoop(bs, i, used, groups) ==
    IF i > Len(bs) THEN groups
    ELSE IF bs[i].name \in used THEN GroupLoop(bs, i + 1, used, groups)
    ELSE LET root == FindRoot(bs, i, {bs[i].name})
             r == CollectGroup(bs, <<bs[root].name>>, used, <<>>)
         IN GroupLoop(bs, i + 1, r.used,
                      IF r.group # <<>> THEN Append(groups, r.group) ELSE groups)

group_neighbors(bs) == GroupLoop(bs, 1, {}, <<>>)

\* The key of neighbor_groups.sort: the group's total area.
GroupArea(bs, g) == SumSeq([k \in 1..Len(g) |-> get_area(bs[g[k]])])

\* list.sort(key, reverse=True): stable, largest key first.
RECURSIVE InsertByArea(_, _, _)
InsertByArea(bs, sorted, g) ==
    IF sorted = <<>> THEN <<g>>
    ELSE IF GroupArea(bs, Head(sorted)) >= GroupArea(bs, g)
         THEN <<Head(sorted)>> \o InsertByArea(bs, Tail(sorted), g)
         ELSE <<g>> \o sorted

RECURSIVE SortGroups(_, _, _)
SortGroups(bs, groups, sorted) ==
    IF groups = <<>> THEN sorted
    ELSE SortGroups(bs, Tail(groups), InsertByArea(bs, sorted, Head(groups)))

sorted_neighbor_groups(bs) == SortGroups(bs, group_neighbors(bs), <<>>)

(***************************************************************************)
(* _place_group_at.  The state of a placement is [bs, order]: the block    *)
(* values and floorplan.blocks as positions in bs, in add_block order.     *)
(***************************************************************************)
InGroup(bs, group, name) == \E k \in 1..Len(group) : bs[group[k]].name = name

GroupIndex(bs, group, name) ==
    group[CHOOSE k \in 1..Len(group) : bs[group[k]].name = name]

Without(s, e) == SelectSeq(s, LAMBDA v : v # e)

\* One pass of `for block in list(remaining)`.
RECURSIVE PlacePass(_, _, _, _, _, _)
PlacePass(bs, group, todo, placed, remaining, placed_any) ==
    IF todo = <<>>
    THEN [bs |-> bs, placed |-> placed, remaining |-> remaining,
          placed_any |-> placed_any]
    ELSE LET b == Head(todo)
             block == bs[b] IN
         IF /\ block.neighbor # None
            /\ \E p \in Range(placed) : bs[p].name = block.neighbor
            /\ InGroup(bs, group, block.neighbor)
         THEN LET neighbor_block == bs[GroupIndex(bs, group, block.neighbor)]
                  rx == neighbor_block.x + neighbor_block.width
                  ry == neighbor_block.y
                  overlap ==
                      \E p \in Range(placed) :
                          RectOverlap(rx, ry, block.width, block.height,
                                      bs[p].x, bs[p].y, bs[p].width, bs[p].height)
                  nx == IF overlap THEN neighbor_block.x ELSE rx
                  ny == IF overlap
                        THEN neighbor_block.y + neighbor_block.height ELSE ry
              IN PlacePass([bs EXCEPT ![b].x = nx, ![b].y = ny], group,
                           Tail(todo), Append(placed, b), Without(remaining, b),
                           TRUE)
         ELSE PlacePass(bs, group, Tail(todo), placed, remaining, placed_any)

RECURSIVE DropAt(_, _, _, _)
DropAt(bs, remaining, x, y) ==
    IF remaining = <<>> THEN bs
    ELSE DropAt([bs EXCEPT ![Head(remaining)].x = x, ![Head(remaining)].y = y],
                Tail(remaining), x, y)

RECURSIVE PlaceLoop(_, _, _, _, _, _, _)
PlaceLoop(bs, group, x, y, placed, remaining, iteration) ==
    IF remaining = <<>> \/ iteration >= Len(group) * 2
    THEN [bs |-> bs, added |-> placed]
    ELSE LET r == PlacePass(bs, group, remaining, placed, remaining, FALSE) IN
         IF r.placed_any
         THEN PlaceLoop(r.bs, group, x, y, r.placed, r.remaining, iteration + 1)
         ELSE [bs |-> DropAt(r.bs, r.remaining, x, y),
               added |-> r.placed \o r.remaining]

\* The blocks it adds to the floorplan, in order, and the new block values.
place_group_at(bs, group, x, y) ==
    IF Len(group) = 0 THEN [bs |-> bs, added |-> <<>>]
    ELSE IF Len(group) = 1
    THEN [bs |-> [bs EXCEPT ![group[1]].x = x, ![group[1]].y = y],
          added |-> <<group[1]>>]
    ELSE LET roots == SelectSeq(group,
                         LAMBDA b : ~(bs[b].neighbor # None
                                      /\ InGroup(bs, group, bs[b].neighbor)))
             current_block == IF roots = <<>> THEN group[1] ELSE roots[1]
             bs1 == [bs EXCEPT ![current_block].x = x, ![current_block].y = y]
         IN PlaceLoop(bs1, group, x, y, <<current_block>>,
                      Without(group, current_block), 0)

\* _place_group_at as the strategies use it: on [bs, order].
PlaceInto(st, group, x, y) ==
    LET r == place_group_at(st.bs, group, x, y)
    IN [bs |-> r.bs, order |-> st.order \o r.added]

GroupWidthSum(bs, g) == SumSeq([k \in 1..Len(g) |-> bs[g[k]].width])

GroupHeightSum(bs, g) == SumSeq([k \in 1..Len(g) |-> bs[g[k]].height])

GroupWidthMax(bs, g) == MaxSeq([k \in 1..Len(g) |-> bs[g[k]].width])

GroupHeightMax(bs, g) == MaxSeq([k \in 1..Len(g) |-> bs[g[k]].height])

\* The blocks of a placement state, in floorplan order.
Placed(st) == [k \in 1..Len(st.order) |-> st.bs[st.order[k]]]

(***************************************************************************)
(* _place_corners_first and its position searches.  The centre search      *)
(* halves coordinates, so this strategy is computed on coordinates and     *)
(* dimensions multiplied by Q, a power of two large enough to keep every   *)
(* value an integer; the code's constants (the grid step 10) are           *)
(* multiplied by Q as well.                                                *)
(***************************************************************************)
\* "Handle legacy location names for backward compatibility"
Legacy(pref) ==
    CASE pref = "top-left" -> "top-left-corner"
      [] pref = "top-right" -> "top-right-corner"
      [] pref = "bottom-left" -> "bottom-left-corner"
      [] pref = "bottom-right" -> "bottom-right-corner"
      [] OTHER -> pref

CornerTags == {"top-left-corner", "top-right-corner",
               "bottom-left-corner", "bottom-right-corner"}

QuadTags == <<"top-left-quad", "top-right-quad",
              "bottom-left-quad", "bottom-right-quad">>

\* The keys of location_prefs.
LocationTags == CornerTags \cup Range(QuadTags) \cup {"center", DontCare}

\* The bucket of a group: the preference of its first member.
Bucket(bs, g) ==
    LET pref == Legacy(bs[g[1]].preferred_location)
    IN IF pref \in LocationTags THEN pref ELSE DontCare

GroupsOf(bs, groups, tag) == SelectSeq(groups, LAMBDA g : Bucket(bs, g) = tag)

\* range(lo, hi, d) as a sequence.
RangeSeq(lo, hi, d) ==
    [k \in 1..(IF hi <= lo THEN 0 ELSE (hi - lo + d - 1) \div d) |->
        lo + (k - 1) * d]

\* [(x, y) for x in xs for y in ys], multiplied by Q.
Cross(xs, ys, Q) ==
    [k \in 1..(Len(xs) * Len(ys)) |->
        <<Q * xs[((k - 1) \div Len(ys)) + 1], Q * ys[((k - 1) % Len(ys)) + 1]>>]

\* The selection loop of _find_best_from_candidates (clamp) and of
\* _find_best_position (no clamp): the first candidate of least resulting
\* area among those that overlap no placed block; candidates[0] if none.
BestCandidate(P, candidates, group_width, group_height, clamp) ==
    LET bw == bounding_width(P)
        bh == bounding_height(P)
        px(k) == IF clamp THEN Max(0, candidates[k][1]) ELSE candidates[k][1]
        py(k) == IF clamp THEN Max(0, candidates[k][2]) ELSE candidates[k][2]
        free(k) == ~\E i \in 1..Len(P) :
                      RectOverlap(px(k), py(k), group_width, group_height,
                                  P[i].x, P[i].y, P[i].width, P[i].height)
        area(k) == Max(bw, px(k) + group_width) * Max(bh, py(k) + group_height)
        ok == {k \in 1..Len(candidates) : free(k)}
    IN IF ok = {} THEN candidates[1]
       ELSE LET least == SetMin({area(k) : k \in ok})
                k == SetMin({j \in ok : area(j) = least})
            IN <<px(k), py(k)>>

find_best_from_candidates(P, candidates, group_width, group_height) ==
    BestCandidate(P, candidates, group_width, group_height, TRUE)

find_quadrant_position(st, group, quadrant, Q) ==
    IF st.order = <<>> THEN <<0, 0>>
    ELSE LET P == Placed(st)
             int_mid_x == bounding_width(P) \div (2 * Q)
             int_mid_y == bounding_height(P) \div (2 * Q)
             int_bw == bounding_width(P) \div Q
             int_bh == bounding_height(P) \div Q
             xs == IF quadrant \in {"top-left-quad", "bottom-left-quad"}
                   THEN RangeSeq(0, int_mid_x, 10)
                   ELSE RangeSeq(int_mid_x, int_bw, 10)
             ys == IF quadrant \in {"top-left-quad", "top-right-quad"}
                   THEN RangeSeq(0, int_mid_y, 10)
                   ELSE RangeSeq(int_mid_y, int_bh, 10)
         IN find_best_from_candidates(P, Cross(xs, ys, Q) \o << <<0, 0>> >>,
                                      GroupWidthSum(st.bs, group),
                                      GroupHeightMax(st.bs, group))

find_center_position(st, group) ==
    IF st.order = <<>> THEN <<0, 0>>
    ELSE LET P == Placed(st)
             group_width == GroupWidthSum(st.bs, group)
             group_height == GroupHeightMax(st.bs, group)
             bw == bounding_width(P)
             bh == bounding_height(P)
             candidates ==
                 << <<(bw - group_width) \div 2, (bh - group_height) \div 2>>,
                    <<bw \div 2, bh \div 2>>,
                    <<(bw \div 2) - group_width, bh \div 2>>,
                    <<bw \div 2, (bh \div 2) - group_height>>,
                    <<0, 0>> >>
         IN find_best_from_candidates(P, candidates, group_width, group_height)

RECURSIVE NextToBlocks(_)
NextToBlocks(P) ==
    IF P = <<>> THEN <<>>
    ELSE << <<Head(P).x + Head(P).width, Head(P).y>>,
            <<Head(P).x, Head(P).y + Head(P).height>> >> \o NextToBlocks(Tail(P))

find_best_position(st, group) ==
    IF st.order = <<>> THEN <<0, 0>>
    ELSE LET P == Placed(st)
             candidates == << <<0, 0>>, <<bounding_width(P), 0>>,
                              <<0, bounding_height(P)>> >> \o NextToBlocks(P)
         IN BestCandidate(P, candidates, GroupWidthSum(st.bs, group),
                          GroupHeightMax(st.bs, group), FALSE)

\* The corner loops: groups stacked down from (0, 0), along from (0, 0),
\* or all at (0, 0).
RECURSIVE PlaceDown(_, _, _)
PlaceDown(st, gs, current_y) ==
    IF gs = <<>> THEN st
    ELSE LET r == PlaceInto(st, Head(gs), 0, current_y)
         IN PlaceDown(r, Tail(gs), current_y + GroupHeightMax(r.bs, Head(gs)))

RECURSIVE PlaceAlong(_, _, _)
PlaceAlong(st, gs, current_x) ==
    IF gs = <<>> THEN st
    ELSE LET r == PlaceInto(st, Head(gs), current_x, 0)
         IN PlaceAlong(r, Tail(gs), current_x + GroupWidthMax(r.bs, Head(gs)))

RECURSIVE PlaceAtOrigin(_, _)
PlaceAtOrigin(st, gs) ==
    IF gs = <<>> THEN st
    ELSE PlaceAtOrigin(PlaceInto(st, Head(gs), 0, 0), Tail(gs))

RECURSIVE PlaceQuadrant(_, _, _, _)
PlaceQuadrant(st, gs, quadrant, Q) ==
    IF gs = <<>> THEN st
    ELSE LET pos == find_quadrant_position(st, Head(gs), quadrant, Q)
         IN PlaceQuadrant(PlaceInto(st, Head(gs), pos[1], pos[2]),
                          Tail(gs), quadrant, Q)

RECURSIVE PlaceQuadrants(_, _, _, _)
PlaceQuadrants(st, groups, q, Q) ==
    IF q > Len(QuadTags) THEN st
    ELSE PlaceQuadrants(
             PlaceQuadrant(st, GroupsOf(st.bs, groups, QuadTags[q]), QuadTags[q], Q),
             groups, q + 1, Q)

RECURSIVE PlaceCenter(_, _)
PlaceCenter(st, gs) ==
    IF gs = <<>> THEN st
    ELSE LET pos == find_center_position(st, Head(gs))
         IN PlaceCenter(PlaceInto(st, Head(gs), pos[1], pos[2]), Tail(gs))

RECURSIVE PlaceDontCare(_, _)
PlaceDontCare(st, gs) ==
    IF gs = <<>> THEN st
    ELSE LET pos == find_best_position(st, Head(gs))
         IN PlaceDontCare(PlaceInto(st, Head(gs), pos[1], pos[2]), Tail(gs))

\* "Adjust corner positions to actual corners": every block of a corner
\* group is shifted by the bounding box less the group's largest dimension.
AdjustCorners(st, groups) ==
    LET P == Placed(st)
        bw == bounding_width(P)
        bh == bounding_height(P)
        GroupOf(i) == CHOOSE k \in 1..Len(groups) : i \in Range(groups[k])
        tag(i) == Bucket(st.bs, groups[GroupOf(i)])
        max_width(i) == GroupWidthMax(st.bs, groups[GroupOf(i)])
        max_height(i) == GroupHeightMax(st.bs, groups[GroupOf(i)])
    IN [i \in 1..Len(st.bs) |->
          LET b == st.bs[i] IN
          CASE tag(i) = "top-right-corner" ->
                   [b EXCEPT !.x = bw - max_width(i) + (b.x - 0)]
            [] tag(i) = "bottom-left-corner" ->
                   [b EXCEPT !.y = bh - max_height(i) + (b.y - 0)]
            [] tag(i) = "bottom-right-corner" ->
                   [b EXCEPT !.x = bw - max_width(i) + (b.x - 0),
                             !.y = bh - max_height(i) + (b.y - 0)]
            [] OTHER -> b]

Adjusted(st, groups) == [bs |-> AdjustCorners(st, groups), order |-> st.order]

place_corners_first(bs, groups, Q) ==
    LET s0 == [bs |-> bs, order |-> <<>>]
        s1 == PlaceDown(s0, GroupsOf(bs, groups, "top-left-corner"), 0)
        s2 == PlaceDown(s1, GroupsOf(bs, groups, "top-right-corner"), 0)
        s3 == PlaceAlong(s2, GroupsOf(bs, groups, "bottom-left-corner"), 0)
        s4 == PlaceAtOrigin(s3, GroupsOf(bs, groups, "bottom-right-corner"))
        s5 == PlaceQuadrants(s4, groups, 1, Q)
        s6 == PlaceCenter(s5, GroupsOf(bs, groups, "center"))
    IN Adjusted(PlaceDontCare(s6, GroupsOf(bs, groups, DontCare)), groups)

(***************************************************************************)
(* _place_row_based, _place_column_based, _choose_best_orientation         *)
(***************************************************************************)
\* abs(rotated_aspect - 1.0) < abs(original_aspect - 1.0), cross-multiplied.
choose_best_orientation(bs, g) ==
    LET sum_w == GroupWidthSum(bs, g)
        sum_h == GroupHeightSum(bs, g)
        max_w == GroupWidthMax(bs, g)
        max_h == GroupHeightMax(bs, g)
    IN IF Abs(sum_h - max_w) * max_h < Abs(sum_w - max_h) * max_w
       THEN "rotated" ELSE "original"

RotateGroup(bs, g) ==
    [i \in 1..Len(bs) |-> IF i \in Range(g) THEN rotate(bs[i]) ELSE bs[i]]

Oriented(bs, g) ==
    IF choose_best_orientation(bs, g) = "rotated" THEN RotateGroup(bs, g) ELSE bs

RECURSIVE RowLoop(_, _, _, _, _, _)
RowLoop(st, gs, current_x, current_y, row_height, max_width) ==
    IF gs = <<>> THEN st
    ELSE LET group == Head(gs)
             bs1 == Oriented(st.bs, group)
             group_width == GroupWidthSum(bs1, group)
             group_height == GroupHeightMax(bs1, group)
             new_row == current_x > 0
                        /\ current_x + group_width > max_width + group_width * 2
             cx == IF new_row THEN 0 ELSE current_x
             cy == IF new_row THEN current_y + row_height ELSE current_y
             rh == IF new_row THEN 0 ELSE row_height
             r == PlaceInto([st EXCEPT !.bs = bs1], group, cx, cy)
         IN RowLoop(r, Tail(gs), cx + group_width, cy, Max(rh, group_height),
                    Max(max_width, cx + group_width))

place_row_based(bs, groups) ==
    RowLoop([bs |-> bs, order |-> <<>>], groups, 0, 0, 0, 0)

RECURSIVE ColumnLoop(_, _, _, _, _, _)
ColumnLoop(st, gs, current_x, current_y, col_width, max_height) ==
    IF gs = <<>> THEN st
    ELSE LET group == Head(gs)
             bs1 == Oriented(st.bs, group)
             group_width == GroupWidthMax(bs1, group)
             group_height == GroupHeightSum(bs1, group)
             new_col == current_y > 0
                        /\ current_y + group_height > max_height + group_height * 2
             cy == IF new_col THEN 0 ELSE current_y
             cx == IF new_col THEN current_x + col_width ELSE current_x
             cw == IF new_col THEN 0 ELSE col_width
             r == PlaceInto([st EXCEPT !.bs = bs1], group, cx, cy)
         IN ColumnLoop(r, Tail(gs), cx, cy + group_height, Max(cw, group_width),
                       Max(max_height, cy + group_height))

place_column_based(bs, groups) ==
    ColumnLoop([bs |-> bs, order |-> <<>>], groups, 0, 0, 0, 0)

(***************************************************************************)
(* _violates_location_constraint and _optimize_placement, on the blocks of *)
(* a floorplan in floorplan order.                                         *)
(***************************************************************************)
\* block_center_x > mid_x, doubled: 2 * x + width > bounding_width.
violates_location_constraint(bs, i) ==
    LET pref == bs[i].preferred_location
        bw == bounding_width(bs)
        bh == bounding_height(bs)
        cx2 == 2 * bs[i].x + bs[i].width
        cy2 == 2 * bs[i].y + bs[i].height
    IN CASE pref = "top-left-quad" -> cx2 > bw \/ cy2 > bh
         [] pref = "top-right-quad" -> cx2 < bw \/ cy2 > bh
         [] pref = "bottom-left-quad" -> cx2 > bw \/ cy2 < bh
         [] pref = "bottom-right-quad" -> cx2 < bw \/ cy2 < bh
         [] OTHER -> FALSE

\* What stops a shift: the layout overlaps somewhere, or the block leaves
\* its quadrant.
Blocked(bs, i) == has_overlaps(bs) \/ violates_location_constraint(bs, i)

\* A slide to the left border that tests no position on its way.
SlideXUntested(bs, i) == 0

\* `while block.x > 0: block.x -= 1; if blocked: revert, break`: the block
\* stops one above the first blocked value below it.
SlideX(bs, i) ==
    LET x0 == bs[i].x
        bad == {v \in 0..(x0 - 1) : Blocked([bs EXCEPT ![i].x = v], i)}
    IN IF x0 <= 0 THEN x0 ELSE IF bad = {} THEN 0 ELSE SetMax(bad) + 1

SlideY(bs, i) ==
    LET y0 == bs[i].y
        bad == {v \in 0..(y0 - 1) : Blocked([bs EXCEPT ![i].y = v], i)}
    IN IF y0 <= 0 THEN y0 ELSE IF bad = {} THEN 0 ELSE SetMax(bad) + 1

\* "Skip blocks with strict location constraints"
SkippedByOptimize == CornerTags \cup {"center"}

max_iterations_optimize == 10

RECURSIVE OptimizePass(_, _, _)
OptimizePass(bs, i, improved) ==
    IF i > Len(bs) THEN [bs |-> bs, improved |-> improved]
    ELSE IF bs[i].preferred_location \in SkippedByOptimize
    THEN OptimizePass(bs, i + 1, improved)
    ELSE LET bs1 == [bs EXCEPT ![i].x = SlideX(bs, i)]
             bs2 == [bs1 EXCEPT ![i].y = SlideY(bs1, i)]
         IN OptimizePass(bs2, i + 1, improved \/ bs2[i] # bs[i])

RECURSIVE OptimizeLoop(_, _)
OptimizeLoop(bs, passes) ==
    IF passes >= max_iterations_optimize THEN [bs |-> bs, passes |-> passes]
    ELSE LET r == OptimizePass(bs, 1, FALSE) IN
         IF ~r.improved THEN [bs |-> r.bs, passes |-> passes + 1]
         ELSE OptimizeLoop(r.bs, passes + 1)

\* _optimize_placement: the blocks after it, and the passes it ran.
optimize_placement_run(bs) ==
    IF bs = <<>> THEN [bs |-> bs, passes |-> 0] ELSE OptimizeLoop(bs, 0)

optimize_placement(bs) == optimize_placement_run(bs).bs

(***************************************************************************)
(* _calculate_cost and its penalties.  Costs are doubled.                  *)
(***************************************************************************)
Infinity == -1

tolerance == 2

\* Twice the penalty of one block: 1 for a corner, 0.5 for a quadrant or
\* the centre.
BlockLocationPenalty2(b, bw, bh) ==
    LET pref == Legacy(b.preferred_location)
        cx2 == 2 * b.x + b.width
        cy2 == 2 * b.y + b.height
        expected_x == bw - b.width
        expected_y == bh - b.height
        Pen(cond, p) == IF cond THEN p ELSE 0
    IN CASE pref = DontCare -> 0
         [] pref = "top-left-corner" ->
                Pen(b.x > tolerance \/ b.y > tolerance, 2)
         [] pref = "top-right-corner" ->
                Pen(Abs(b.x - expected_x) > tolerance \/ b.y > tolerance, 2)
         [] pref = "bottom-left-corner" ->
                Pen(b.x > tolerance \/ Abs(b.y - expected_y) > tolerance, 2)
         [] pref = "bottom-right-corner" ->
                Pen(Abs(b.x - expected_x) > tolerance
                    \/ Abs(b.y - expected_y) > tolerance, 2)
         [] pref = "top-left-quad" -> Pen(cx2 > bw \/ cy2 > bh, 1)
         [] pref = "top-right-quad" -> Pen(cx2 < bw \/ cy2 > bh, 1)
         [] pref = "bottom-left-quad" -> Pen(cx2 > bw \/ cy2 < bh, 1)
         [] pref = "bottom-right-quad" -> Pen(cx2 < bw \/ cy2 < bh, 1)
         \* dist_from_center > max_dist * 0.6, with max_dist = (bw + bh) / 4
         [] pref = "center" ->
                Pen(10 * (Abs(cx2 - bw) + Abs(cy2 - bh)) > 3 * (bw + bh), 1)
         [] OTHER -> 0

\* _calculate_location_penalty, doubled.
calculate_location_penalty2(bs) ==
    IF bs = <<>> THEN 0
    ELSE SumSeq([i \in 1..Len(bs) |->
                    BlockLocationPenalty2(bs[i], bounding_width(bs),
                                          bounding_height(bs))])

\* A neighbor penalty that passes over a neighbor that is not in the layout.
neighbor_penalty_of_present(bs) ==
    IF bs = <<>> THEN 0
    ELSE SumSeq([i \in 1..Len(bs) |->
            IF bs[i].neighbor = None THEN 0
            ELSE IF ~HasName(bs, bs[i].neighbor) THEN 0
            ELSE IF ~abuts(bs[i], bs[IndexOfName(bs, bs[i].neighbor)]) THEN 1
            ELSE 0])

\* _calculate_neighbor_penalty
calculate_neighbor_penalty(bs) ==
    IF bs = <<>> THEN 0
    ELSE SumSeq([i \in 1..Len(bs) |->
            IF bs[i].neighbor = None THEN 0
            ELSE IF ~HasName(bs, bs[i].neighbor) THEN 1
            ELSE IF ~abuts(bs[i], bs[IndexOfName(bs, bs[i].neighbor)]) THEN 1
            ELSE 0])

\* Twice the aspect-ratio penalty.  With L the longer and S the shorter
\* side, aspect_ratio = L / S and area = L * S, so
\*   area * (aspect_ratio - max_aspect_ratio) * 100 = 100 * L * L - 50 * m * L * S
\*   area * (aspect_ratio - 1.0) * 0.5              = (L * L - L * S) / 2
\* where m is max_aspect_ratio in halves.
AspectPenalty2(bw, bh, m) ==
    LET L == Max(bw, bh)
        S == Min(bw, bh)
    IN IF 2 * L > m * S THEN 200 * L * L - 100 * m * L * S
       ELSE L * L - L * S

\* _calculate_cost, doubled; Infinity for a degenerate bounding box.
calculate_cost(bs, m) ==
    LET bw == bounding_width(bs)
        bh == bounding_height(bs)
        area == bw * bh
    IN IF bw = 0 \/ bh = 0 THEN Infinity
       ELSE 2 * area + AspectPenalty2(bw, bh, m)
            + (IF has_overlaps(bs) THEN 2 * area * 100000 ELSE 0)
            + (calculate_location_penalty2(bs)
               + 2 * calculate_neighbor_penalty(bs)) * area * 10000

\* a > b on costs.
CostMore(a, b) == b # Infinity /\ (a = Infinity \/ b < a)

\* a < b on costs.
CostLess(a, b) == a # Infinity /\ (b = Infinity \/ a < b)

(***************************************************************************)
(* _generate_neighbor: the layouts one perturbation can produce from the   *)
(* blocks bs of a floorplan, before the compaction that follows it.        *)
(***************************************************************************)
\* The largest |offset| of a move the model explores.
MaxOffset == 1

Indices(bs) == 1..Len(bs)

\* [b for b in neighbor.blocks if not b.neighbor]
WithoutNeighbor(bs) == {i \in Indices(bs) : bs[i].neighbor = None}

\* has_neighbor: the names of the blocks that name a neighbor.
has_neighbor(bs) == {bs[i].name : i \in Indices(bs) \ WithoutNeighbor(bs)}

\* [b for b in neighbor.blocks if b.name not in has_neighbor and not b.neighbor]
Unconstrained(bs) == {i \in WithoutNeighbor(bs) : bs[i].name \notin has_neighbor(bs)}

SwapXY(bs, i, j) ==
    [bs EXCEPT ![i].x = bs[j].x, ![i].y = bs[j].y,
               ![j].x = bs[i].x, ![j].y = bs[i].y]

\* 'swap': two unconstrained blocks if there are two, else any two;
\* nothing when there are fewer than two blocks.
SwapResults(bs) ==
    LET pool == IF Cardinality(Unconstrained(bs)) >= 2
                THEN Unconstrained(bs) ELSE Indices(bs)
    IN IF Len(bs) >= 2
       THEN {SwapXY(bs, i, j) : <<i, j>> \in {p \in pool \X pool : p[1] # p[2]}}
       ELSE {bs}

RotateAll(bs, S) == [i \in Indices(bs) |-> IF i \in S THEN rotate(bs[i]) ELSE bs[i]]

\* 'rotate': 1 to 3 blocks, among those without a neighbor if there is one.
RotateResults(bs) ==
    LET pool == IF WithoutNeighbor(bs) # {} THEN WithoutNeighbor(bs) ELSE Indices(bs)
    IN {RotateAll(bs, S) :
           S \in {T \in SUBSET pool :
                     Cardinality(T) \in 1..Min(3, Cardinality(pool))}}

\* 'move': the block goes to (new_x, new_y); then, if it names a neighbor
\* that is present, the neighbor is set to its own position less
\* (block.x - new_x, block.y - new_y), computed after block.x = new_x.
MoveBlock(bs, i, dx, dy) ==
    LET new_x == Max(0, bs[i].x + dx)
        new_y == Max(0, bs[i].y + dy)
        bs1 == [bs EXCEPT ![i].x = new_x, ![i].y = new_y]
    IN IF bs1[i].neighbor # None /\ HasName(bs1, bs1[i].neighbor)
       THEN LET n == SetMin({k \in Indices(bs1) : bs1[k].name = bs1[i].neighbor})
                offset_x == bs1[n].x - (bs1[i].x - new_x)
                offset_y == bs1[n].y - (bs1[i].y - new_y)
            IN [bs1 EXCEPT ![n].x = offset_x, ![n].y = offset_y]
       ELSE bs1

MoveResults(bs) ==
    LET pool == IF Unconstrained(bs) # {} THEN Unconstrained(bs) ELSE Indices(bs)
        max_dim == Max(bounding_width(bs), bounding_height(bs))
        r == Min(max_dim \div 2, MaxOffset)
    IN {MoveBlock(bs, i, dx, dy) : i \in pool, dx \in (-r)..r, dy \in (-r)..r}

\* 'repack': rows from left to right in the shuffled order; a new row once
\* current_x > target_width = sqrt(total_area * bounding_width / max(bh, 1)).
RECURSIVE RepackRows(_, _, _, _, _, _, _)
RepackRows(bs, i, current_x, current_y, row_height, num, den) ==
    IF i > Len(bs) THEN bs
    ELSE LET new_row == current_x * current_x * den > num /\ current_x > 0
             cx == IF new_row THEN 0 ELSE current_x
             cy == IF new_row THEN current_y + row_height ELSE current_y
             rh == IF new_row THEN 0 ELSE row_height
         IN RepackRows([bs EXCEPT ![i].x = cx, ![i].y = cy], i + 1,
                       cx + bs[i].width, cy, Max(rh, bs[i].height), num, den)

\* A repack that shuffles the list and places no block.
ShuffleOnly(bs, p) == [k \in Indices(bs) |-> bs[p[k]]]

Repack(bs, p) ==
    LET shuffled == [k \in Indices(bs) |-> bs[p[k]]]
        total_area == SumSeq([k \in Indices(bs) |-> bs[k].width * bs[k].height])
    IN RepackRows(shuffled, 1, 0, 0, 0, total_area * bounding_width(bs),
                  Max(bounding_height(bs), 1))

RepackResults(bs) == {Repack(bs, p) : p \in Perms(Len(bs))}

Perturbations == {"swap", "rotate", "move", "repack"}

Perturbed(bs, perturbation) ==
    CASE perturbation = "swap" -> SwapResults(bs)
      [] perturbation = "rotate" -> RotateResults(bs)
      [] perturbation = "move" -> MoveResults(bs)
      [] perturbation = "repack" -> RepackResults(bs)

\* _generate_neighbor: the candidates of one perturbation, compacted.
\* Each with the number of compaction passes it took.
generate_neighbor(bs, perturbation) ==
    IF bs = <<>> THEN {[bs |-> bs, passes |-> 0]}
    ELSE {optimize_placement_run(c) : c \in Perturbed(bs, perturbation)}

(***************************************************************************)
(* _get_initial_solution.  The three strategies place the same Block       *)
(* objects one after the other, so the floorplan that is selected keeps    *)
(* its own block order and shows the blocks as the last strategy left them.*)
(***************************************************************************)
Scaled(bs, Q) ==
    [i \in Indices(bs) |->
        [bs[i] EXCEPT !.width = Q * bs[i].width, !.height = Q * bs[i].height,
                      !.x = Q * bs[i].x, !.y = Q * bs[i].y]]

Area(P) == bounding_width(P) * bounding_height(P)

\* What a strategy produced when it returned: its blocks in floorplan
\* order, on coordinates multiplied by scale.
Produced(st, scale) == [blocks |-> Placed(st), order |-> st.order, scale |-> scale]

\* The blocks after the third strategy, with what the three produced.
AfterColumn(groups, cf, row, col) ==
    [groups |-> groups, corners_first |-> cf, row_based |-> row,
     column_based |-> Produced(col, 1), bs |-> col.bs]

AfterRow(groups, cf, row) ==
    AfterColumn(groups, cf, Produced(row, 1), place_column_based(row.bs, groups))

TryOn(bs, groups, Q) ==
    AfterRow(groups, Produced(place_corners_first(Scaled(bs, Q), groups, Q), Q),
             place_row_based(bs, groups))

TryGroups(bs, groups) == TryOn(bs, groups, 2 ^ Len(GroupsOf(bs, groups, "center")))

\* for strategy in ['corners_first', 'row_based', 'column_based']:
\*     floorplan = _place_blocks(neighbor_groups, strategy)
try_strategies(bs) == TryGroups(bs, sorted_neighbor_groups(bs))

\* floorplan.get_area() < best_area, for the strategies in their order.
SelectByArea(a1, a2, a3) ==
    IF a3 < Min(a1, a2) THEN "column_based"
    ELSE IF a2 < a1 THEN "row_based" ELSE "corners_first"

selected_strategy(t) ==
    SelectByArea(Area(t.corners_first.blocks),
                 Area(t.row_based.blocks) * t.corners_first.scale * t.corners_first.scale,
                 Area(t.column_based.blocks) * t.corners_first.scale * t.corners_first.scale)

\* The blocks of blocks_copy once the floorplan's blocks, listed in order,
\* were compacted (r), and the order in which the floorplan lists them.
\* handed is the floorplan as _optimize_placement received it.
WriteBack(bs, order, r, t) ==
    [bs |-> [i \in Indices(bs) |->
                IF \E k \in 1..Len(order) : order[k] = i
                THEN r.bs[CHOOSE k \in 1..Len(order) : order[k] = i]
                ELSE bs[i]],
     order |-> order,
     passes |-> r.passes,
     groups |-> t.groups,
     tried |-> [corners_first |-> t.corners_first, row_based |-> t.row_based,
                column_based |-> t.column_based, selected |-> selected_strategy(t),
                handed |-> [k \in 1..Len(order) |-> bs[order[k]]],
                passes |-> r.passes]]

CompactSelected(bs, order, t) ==
    WriteBack(bs, order,
              optimize_placement_run([k \in 1..Len(order) |-> bs[order[k]]]), t)

SelectFrom(t) == CompactSelected(t.bs, t[selected_strategy(t)].order, t)

\* _get_initial_solution: the blocks of blocks_copy after it, the order in
\* which the returned floorplan lists them, and what was tried.
get_initial_solution(bs) == SelectFrom(try_strategies(bs))

(***************************************************************************)
(* _enforce_corner_constraints.  st = [bs, bw, bh]: the blocks in          *)
(* floorplan order and the bounding box the floorplan has stored.          *)
(***************************************************************************)
\* An update that leaves the stored bounding box as it is.
stale_bounding_box(st) == st

update_bounding_box(st) ==
    [st EXCEPT !.bw = bounding_width(st.bs), !.bh = bounding_height(st.bs)]

\* corner_blocks: for each corner tag, the last block that prefers it.
corner_blocks(bs) ==
    [tag \in {Legacy(bs[i].preferred_location) : i \in Indices(bs)} \cap CornerTags |->
        SetMax({i \in Indices(bs) : Legacy(bs[i].preferred_location) = tag})]

\* block.preferred_location in corner_blocks.values(): a string looked up
\* among Block objects, which have no __eq__; it is never found.
InCornerBlockValues(bs, i, cb) == FALSE

max_iterations_enforce == 20

SnapTopLeft(r, cb) ==
    IF "top-left-corner" \in DOMAIN cb
    THEN LET i == cb["top-left-corner"]
         IN IF r.st.bs[i].x # 0 \/ r.st.bs[i].y # 0
            THEN [st |-> [r.st EXCEPT !.bs[i].x = 0, !.bs[i].y = 0], moved_any |-> TRUE]
            ELSE r
    ELSE r

SnapTopRight(r, cb) ==
    IF "top-right-corner" \in DOMAIN cb
    THEN LET i == cb["top-right-corner"]
             b == r.st.bs[i]
             expected_x == r.st.bw - b.width
             mx == Abs(b.x - expected_x) > 1
             my == b.y # 0
         IN [st |-> [r.st EXCEPT !.bs[i].x = IF mx THEN expected_x ELSE b.x,
                                 !.bs[i].y = 0],
             moved_any |-> r.moved_any \/ mx \/ my]
    ELSE r

SnapBottomLeft(r, cb) ==
    IF "bottom-left-corner" \in DOMAIN cb
    THEN LET i == cb["bottom-left-corner"]
             b == r.st.bs[i]
             expected_y == r.st.bh - b.height
             mx == b.x # 0
             my == Abs(b.y - expected_y) > 1
         IN [st |-> [r.st EXCEPT !.bs[i].x = 0,
                                 !.bs[i].y = IF my THEN expected_y ELSE b.y],
             moved_any |-> r.moved_any \/ mx \/ my]
    ELSE r

SnapBottomRight(r, cb) ==
    IF "bottom-right-corner" \in DOMAIN cb
    THEN LET i == cb["bottom-right-corner"]
             b == r.st.bs[i]
             expected_x == r.st.bw - b.width
             expected_y == r.st.bh - b.height
         IN IF Abs(b.x - expected_x) > 1 \/ Abs(b.y - expected_y) > 1
            THEN [st |-> [r.st EXCEPT !.bs[i].x = expected_x, !.bs[i].y = expected_y],
                  moved_any |-> TRUE]
            ELSE r
    ELSE r

Snap(st, cb) ==
    SnapBottomRight(SnapBottomLeft(SnapTopRight(SnapTopLeft(
        [st |-> st, moved_any |-> FALSE], cb), cb), cb), cb)

\* The blocks the overlap resolution collects.
overlapping_blocks(bs, cb) ==
    {i \in Indices(bs) :
        /\ \E j \in Indices(bs) : j # i /\ overlaps(bs[i], bs[j])
        /\ ~InCornerBlockValues(bs, i, cb)}

overlap_count(bs, i) ==
    Cardinality({j \in Indices(bs) : j # i /\ overlaps(bs[i], bs[j])})

\* The number of values of range(0, stop, d).
RangeLen(stop, d) == IF stop <= 0 THEN 0 ELSE (stop + d - 1) \div d

relocate_step == 50

\* One position of the scan: s = [best_pos, best_overlap_count, found, broke];
\* broke is the break out of the column.
ScanTry(bs, i, test_x, test_y, s, n) ==
    IF n = 0 THEN [s EXCEPT !.best_pos = <<test_x, test_y>>, !.found = TRUE,
                            !.broke = TRUE]
    ELSE IF s.best_overlap_count = Infinity \/ n < s.best_overlap_count
    THEN [s EXCEPT !.best_pos = <<test_x, test_y>>, !.best_overlap_count = n]
    ELSE s

\* for test_y in range(...) of one column, the values lo * 50 .. (hi - 1) * 50.
\* The range is halved so that the evaluation stays shallow.
RECURSIVE ScanColumn(_, _, _, _, _, _)
ScanColumn(bs, i, test_x, s, lo, hi) ==
    IF Evaluated(s) /\ (hi <= lo \/ s.broke) THEN s
    ELSE IF hi = lo + 1
    THEN ScanTry(bs, i, test_x, lo * relocate_step, s,
                 overlap_count([bs EXCEPT ![i].x = test_x,
                                          ![i].y = lo * relocate_step], i))
    ELSE ScanColumn(bs, i, test_x,
                    ScanColumn(bs, i, test_x, s, lo, (lo + hi) \div 2),
                    (lo + hi) \div 2, hi)

\* for test_x in range(...): best_overlap_count is never set to 0, so no
\* column ends the scan.
RECURSIVE ScanGrid(_, _, _, _, _, _)
ScanGrid(bs, i, rows, s, lo, hi) ==
    IF Evaluated(s) /\ (hi <= lo \/ s.best_overlap_count = 0) THEN s
    ELSE IF hi = lo + 1
    THEN ScanColumn(bs, i, lo * relocate_step, [s EXCEPT !.broke = FALSE], 0, rows)
    ELSE ScanGrid(bs, i, rows, ScanGrid(bs, i, rows, s, lo, (lo + hi) \div 2),
                  (lo + hi) \div 2, hi)

Relocated(r, i, s) ==
    [st |-> [r.st EXCEPT !.bs[i].x = s.best_pos[1], !.bs[i].y = s.best_pos[2]],
     moved_any |-> r.moved_any \/ s.found]

Relocate(r, i) ==
    Relocated(r, i,
        ScanGrid(r.st.bs, i, RangeLen(r.st.bh + 100, relocate_step),
                 [best_pos |-> <<r.st.bs[i].x, r.st.bs[i].y>>,
                  best_overlap_count |-> Infinity, found |-> FALSE, broke |-> FALSE],
                 0, RangeLen(r.st.bw + 100, relocate_step)))

RECURSIVE RelocateAll(_, _, _)
RelocateAll(r, order, cb) ==
    IF Evaluated(r) /\ order = <<>> THEN r
    ELSE RelocateAll(IF InCornerBlockValues(r.st.bs, Head(order), cb)
                     THEN r ELSE Relocate(r, Head(order)),
                     Tail(order), cb)

\* The orders in which a set can be iterated.
Orders(S) ==
    {o \in [1..Cardinality(S) -> S] : \A a, b \in 1..Cardinality(S) : a # b => o[a] # o[b]}

\* One iteration of the snapping loop, for the iteration order `order` of
\* overlapping_blocks: the floorplan after it and whether the loop breaks.
enforce_iteration(st, cb, order) ==
    LET r0 == Snap(update_bounding_box(st), cb)
        r1 == IF has_overlaps(r0.st.bs) THEN RelocateAll(r0, order, cb) ELSE r0
        st1 == update_bounding_box(r1.st)
    IN [st |-> st1, break |-> ~r1.moved_any /\ ~has_overlaps(st1.bs)]

IterationOrders(st, cb) ==
    LET r0 == Snap(update_bounding_box(st), cb)
    IN IF has_overlaps(r0.st.bs) THEN Orders(overlapping_blocks(r0.st.bs, cb))
       ELSE {<<>>}

(***************************************************************************)
(* _compact_with_locked_corners and _calculate_local_density.              *)
(* _violates_location_constraint stores the bounding box as a side effect, *)
(* and the edge and grid loops read the stored box, so the stored box is   *)
(* carried along: st = [bs, bw, bh].                                       *)
(***************************************************************************)
Coord(b, axis) == IF axis = "x" THEN b.x ELSE b.y

SetCoord(st, i, axis, v) ==
    IF axis = "x" THEN [st EXCEPT !.bs[i].x = v] ELSE [st EXCEPT !.bs[i].y = v]

\* floorplan.has_overlaps() or _violates_location_constraint(block, floorplan)
\* with the block where st has it: the verdict and the floorplan after the call.
blocked_at(st, i) ==
    IF has_overlaps(st.bs) THEN [v |-> TRUE, st |-> st]
    ELSE IF st.bs[i].preferred_location = DontCare THEN [v |-> FALSE, st |-> st]
    ELSE [v |-> violates_location_constraint(st.bs, i), st |-> update_bounding_box(st)]

\* One iteration of `while block.x >= step: block.x -= step; if blocked:
\* block.x += step; break; improved = True`: r = [st, improved, broke].
StepTried(b, i, axis, c, improved) ==
    IF b.v THEN [st |-> SetCoord(b.st, i, axis, c), improved |-> improved,
                 broke |-> TRUE]
    ELSE [st |-> b.st, improved |-> TRUE, broke |-> FALSE]

StepTry(r, i, axis, stepv, c) ==
    IF c < stepv THEN [r EXCEPT !.broke = TRUE]
    ELSE StepTried(blocked_at(SetCoord(r.st, i, axis, c - stepv), i), i, axis, c,
                   r.improved)

\* The first n iterations of the loop, halved so that the evaluation stays
\* shallow.
RECURSIVE StepFirst(_, _, _, _, _)
StepFirst(r, i, axis, stepv, n) ==
    IF Evaluated(r) /\ (n <= 0 \/ r.broke) THEN r
    ELSE IF n = 1 THEN StepTry(r, i, axis, stepv, Coord(r.st.bs[i], axis))
    ELSE StepFirst(StepFirst(r, i, axis, stepv, n \div 2), i, axis, stepv,
                   n - n \div 2)

StepEnd(r) == [st |-> r.st, improved |-> r.improved]

\* The loop runs at most block.x // step times.
StepLoop(st, i, axis, stepv, improved) ==
    StepEnd(StepFirst([st |-> st, improved |-> improved, broke |-> FALSE], i, axis,
                      stepv, Coord(st.bs[i], axis) \div stepv))

compact_steps == <<50, 10, 5, 1>>

RECURSIVE StepsLoop(_, _, _, _, _)
StepsLoop(st, i, axis, steps, improved) ==
    IF Evaluated(st) /\ steps = <<>> THEN [st |-> st, improved |-> improved]
    ELSE LET r == StepLoop(st, i, axis, Head(steps), improved)
         IN StepsLoop(r.st, i, axis, Tail(steps), r.improved)

\* if block.x != original_x or block.y != original_y: improved = True
Moved(r, i, original) ==
    [st |-> r.st,
     improved |-> r.improved \/ r.st.bs[i].x # original.x \/ r.st.bs[i].y # original.y]

StepsUp(rx, i) == StepsLoop(rx.st, i, "y", compact_steps, rx.improved)

CompactBlock(r, i) ==
    Moved(StepsUp(StepsLoop(r.st, i, "x", compact_steps, r.improved), i), i,
          r.st.bs[i])

RECURSIVE CompactBlocks(_, _)
CompactBlocks(r, movable) ==
    IF Evaluated(r) /\ movable = <<>> THEN r
    ELSE CompactBlocks(CompactBlock(r, Head(movable)), Tail(movable))

edge_step == 10

\* One position of `for new_x in range(0, int(original_x), 10)`: the block
\* stays at the first position that is neither overlapping nor violating, and
\* goes back to the original one otherwise.  r = [st, improved, broke].
EdgeTried(b, i, axis, original, improved) ==
    IF ~b.v THEN [st |-> b.st, improved |-> TRUE, broke |-> TRUE]
    ELSE [st |-> SetCoord(b.st, i, axis, original), improved |-> improved,
          broke |-> FALSE]

\* The positions lo * 10 .. (hi - 1) * 10, halved so that the evaluation stays
\* shallow.
RECURSIVE EdgeTry(_, _, _, _, _, _)
EdgeTry(r, i, axis, original, lo, hi) ==
    IF Evaluated(r) /\ (hi <= lo \/ r.broke) THEN r
    ELSE IF hi = lo + 1
    THEN EdgeTried(blocked_at(SetCoord(r.st, i, axis, lo * edge_step), i), i, axis,
                   original, r.improved)
    ELSE EdgeTry(EdgeTry(r, i, axis, original, lo, (lo + hi) \div 2), i, axis,
                 original, (lo + hi) \div 2, hi)

EdgeBlock(r, i, axis) ==
    LET b == r.st.bs[i]
        at_edge == IF axis = "x" THEN b.x + b.width >= r.st.bw - 10
                                 ELSE b.y + b.height >= r.st.bh - 10
    IN IF at_edge
       THEN StepEnd(EdgeTry([st |-> r.st, improved |-> r.improved, broke |-> FALSE],
                            i, axis, Coord(b, axis), 0,
                            RangeLen(Coord(b, axis), edge_step)))
       ELSE r

RECURSIVE EdgeBlocks(_, _, _)
EdgeBlocks(r, movable, axis) ==
    IF Evaluated(r) /\ movable = <<>> THEN r
    ELSE EdgeBlocks(EdgeBlock(r, Head(movable), axis), Tail(movable), axis)

\* list.sort(key): a stable insertion of e into the sorted sequence.
RECURSIVE InsertByKey(_, _, _)
InsertByKey(sorted, e, key) ==
    IF sorted = <<>> THEN <<e>>
    ELSE IF key[e] < key[Head(sorted)] THEN <<e>> \o sorted
    ELSE <<Head(sorted)>> \o InsertByKey(Tail(sorted), e, key)

RECURSIVE SortByKey(_, _, _)
SortByKey(todo, sorted, key) ==
    IF todo = <<>> THEN sorted
    ELSE SortByKey(Tail(todo), InsertByKey(sorted, Head(todo), key), key)

\* [b for b in floorplan.blocks if b not in locked_blocks], sorted by x + y.
movable_blocks(bs, locked) ==
    SortByKey(SelectSeq([i \in Indices(bs) |-> i], LAMBDA i : i \notin locked),
              <<>>, [i \in Indices(bs) |-> bs[i].x + bs[i].y])

max_passes == 20

\* if pass_num % 3 == 0: the blocks at the right edge, then at the bottom.
ShrinkEdges(r, movable) ==
    EdgeBlocks(EdgeBlocks([r EXCEPT !.st = update_bounding_box(r.st)], movable, "x"),
               movable, "y")

PassOver(st0, movable, pass_num) ==
    IF pass_num % 3 = 0
    THEN ShrinkEdges(CompactBlocks([st |-> st0, improved |-> FALSE], movable), movable)
    ELSE CompactBlocks([st |-> st0, improved |-> FALSE], movable)

\* for pass_num in range(max_passes): ...; if not improved: break
RECURSIVE CompactPasses(_, _, _)
RECURSIVE PassEnd(_, _, _, _)
PassEnd(r, movable, locked, pass_num) ==
    IF ~r.improved \/ pass_num + 1 >= max_passes
    THEN [st |-> r.st, movable |-> movable, passes |-> pass_num + 1]
    ELSE CompactPasses(r.st, locked, pass_num + 1)

PassOn(st0, movable, locked, pass_num) ==
    PassEnd(PassOver(st0, movable, pass_num), movable, locked, pass_num)

PassFrom(st0, locked, pass_num) ==
    PassOn(st0, movable_blocks(st0.bs, locked), locked, pass_num)

CompactPasses(st, locked, pass_num) ==
    PassFrom(update_bounding_box(st), locked, pass_num)

\* _calculate_local_density: distance < 200 between centres, doubled and
\* squared; 5 more for each abutting block.
calculate_local_density(bs, i) ==
    LET near == {j \in Indices(bs) \ {i} :
                    LET dx2 == (2 * bs[i].x + bs[i].width) - (2 * bs[j].x + bs[j].width)
                        dy2 == (2 * bs[i].y + bs[i].height) - (2 * bs[j].y + bs[j].height)
                    IN dx2 * dx2 + dy2 * dy2 < 160000}
        adjacent == {j \in Indices(bs) \ {i} : abuts(bs[i], bs[j])}
    IN Cardinality(near) + 5 * Cardinality(adjacent)

tetris_step == 20

\* One position of the grid of the final packing: t = [st, best_x, best_y,
\* best_density], b the verdict at the position.
TetrisTried(t, b, i, test_x, test_y, density) ==
    IF ~b.v /\ (density > t.best_density
                \/ (density = t.best_density /\ test_x + test_y < t.best_x + t.best_y))
    THEN [st |-> b.st, best_x |-> test_x, best_y |-> test_y, best_density |-> density]
    ELSE [t EXCEPT !.st = b.st]

TetrisAt(t, b, i, test_x, test_y) ==
    TetrisTried(t, b, i, test_x, test_y, calculate_local_density(b.st.bs, i))

TetrisTry(t, i, test_x, test_y) ==
    TetrisAt(t, blocked_at([t.st EXCEPT !.bs[i].x = test_x, !.bs[i].y = test_y], i),
             i, test_x, test_y)

\* for test_y in range(...) of one column, the values lo * 20 .. (hi - 1) * 20,
\* halved so that the evaluation stays shallow.
RECURSIVE TetrisColumn(_, _, _, _, _)
TetrisColumn(t, i, test_x, lo, hi) ==
    IF Evaluated(t) /\ hi <= lo THEN t
    ELSE IF hi = lo + 1 THEN TetrisTry(t, i, test_x, lo * tetris_step)
    ELSE TetrisColumn(TetrisColumn(t, i, test_x, lo, (lo + hi) \div 2), i, test_x,
                      (lo + hi) \div 2, hi)

\* for test_x in range(...): the range of test_y is taken from the stored box
\* when the column starts.
RECURSIVE TetrisGrid(_, _, _, _)
TetrisGrid(t, i, lo, hi) ==
    IF Evaluated(t) /\ hi <= lo THEN t
    ELSE IF hi = lo + 1
    THEN TetrisColumn(t, i, lo * tetris_step, 0,
                      RangeLen(t.st.bh - t.st.bs[i].height + 1, tetris_step))
    ELSE TetrisGrid(TetrisGrid(t, i, lo, (lo + hi) \div 2), i, (lo + hi) \div 2, hi)

\* block.x, block.y = best_x, best_y
AtBest(t, i) == [t.st EXCEPT !.bs[i].x = t.best_x, !.bs[i].y = t.best_y]

\* "Fine-tune position"
FineTune(st, i) == StepLoop(StepLoop(st, i, "x", 1, FALSE).st, i, "y", 1, FALSE).st

TetrisBlock(st, i) ==
    FineTune(AtBest(TetrisGrid([st |-> st, best_x |-> st.bs[i].x,
                                best_y |-> st.bs[i].y,
                                best_density |-> calculate_local_density(st.bs, i)],
                               i, 0,
                               RangeLen(st.bw - st.bs[i].width + 1, tetris_step)),
                    i), i)

RECURSIVE TetrisBlocks(_, _)
TetrisBlocks(st, movable) ==
    IF Evaluated(st) /\ movable = <<>> THEN st
    ELSE TetrisBlocks(TetrisBlock(st, Head(movable)), Tail(movable))

\* movable_blocks.sort(key=lambda b: b.width * b.height, reverse=True) and
\* the final packing.
TetrisPacking(r) ==
    [st |-> update_bounding_box(
                TetrisBlocks(r.st, SortByKey(r.movable, <<>>,
                    [i \in Indices(r.st.bs) |-> 0 - get_area(r.st.bs[i])]))),
     passes |-> r.passes]

compact_with_locked_corners(st, cb) ==
    IF st.bs = <<>> THEN [st |-> st, passes |-> 0]
    ELSE TetrisPacking(CompactPasses(st, {cb[tag] : tag \in DOMAIN cb}, 0))

(***************************************************************************)
(* The annealing schedule.  Temperatures are in units of 1/100000.         *)
(***************************************************************************)
code_initial_temp == 500000000

final_temp == 10000

cooling_rate == 97

code_iterations_per_temp == 100

\* A cooling that leaves the temperature where it is.
no_cooling(T) == T

\* temperature *= cooling_rate
cool_down(T) == T - (T * (100 - cooling_rate) + 99) \div 100

\* The steps the while loop runs from the initial temperature 5000.0:
\* the least n with 5000.0 * 0.97 ^ n <= 0.1.
schedule_steps == 356

\* The temperatures of the last steps of the schedule, the last one first:
\* schedule_tail[k] is the temperature from which k steps remain.
schedule_tail == <<10050, 10361, 10682, 11013, 11354, 11706>>

\* math.exp(-x) is 0.0 beyond this x.
exp_underflow == 745

\* random.random() < math.exp(-delta / temperature) can be true for a
\* delta > 0: the exponential is not 0.0.  delta2 is the doubled delta.
can_accept_worse(delta2, T) ==
    IF T < 1000000 THEN delta2 <= (T * 2 * exp_underflow) \div 100000
    ELSE delta2 <= ((T \div 1000) * 2 * exp_underflow) \div 100

(***************************************************************************)
(* Object identities.  After each step the heap keeps the objects that     *)
(* the lists of the program still reach, numbered in the order in which    *)
(* the lists reach them.                                                   *)
(***************************************************************************)
RECURSIVE Dedupe(_, _)
Dedupe(s, acc) ==
    IF s = <<>> THEN acc
    ELSE Dedupe(Tail(s), IF Head(s) \in Range(acc) THEN acc ELSE Append(acc, Head(s)))

Renumber(live, ids) ==
    [k \in 1..Len(ids) |-> CHOOSE n \in 1..Len(live) : live[n] = ids[k]]

NoIteration == [perturbation |-> "none", outcome |-> "none", passes |-> 0,
                neighbor |-> FloorPlan]

\* The next heap and the next lists, given the heap h and the floorplans.
Objects(h, ini, cur, bst, lst) ==
    LET live == Dedupe(blocks \o blocks_copy \o ini.blocks \o cur.blocks
                       \o bst.blocks \o lst.neighbor.blocks, <<>>)
    IN /\ heap' = [k \in 1..Len(live) |-> h[live[k]]]
       /\ blocks' = Renumber(live, blocks)
       /\ blocks_copy' = Renumber(live, blocks_copy)
       /\ initial_floorplan' = [ini EXCEPT !.blocks = Renumber(live, ini.blocks)]
       /\ current' = [cur EXCEPT !.blocks = Renumber(live, cur.blocks)]
       /\ best' = [bst EXCEPT !.blocks = Renumber(live, bst.blocks)]
       /\ last' = [lst EXCEPT !.neighbor.blocks = Renumber(live, lst.neighbor.blocks)]

\* A FloorPlan over the identities ids whose bounding box was just stored.
Updated(h, ids) ==
    [blocks |-> ids, bounding_width |-> bounding_width(Vals(h, ids)),
     bounding_height |-> bounding_height(Vals(h, ids))]

(***************************************************************************)
(* calculate_floorplan                                                     *)
(***************************************************************************)
\* A validation that looks at the width only.
InvalidWidth(b) == b.width <= 0

InvalidDimensions(b) == b.width <= 0 \/ b.height <= 0

\* The state at the call, for one input: the caller's blocks, the bound,
\* and the two annealing parameters the model bounds.
InitOn(input) ==
    /\ pc = "start"
    /\ heap = [i \in 1..Len(input.blocks) |->
                 NewBlock(input.blocks[i][1], input.blocks[i][2], input.blocks[i][3],
                          input.blocks[i][4], input.blocks[i][5])]
    /\ blocks = [i \in 1..Len(input.blocks) |-> i]
    /\ max_aspect_ratio = input.max_aspect_ratio
    /\ blocks_copy = <<>>
    /\ neighbor_groups = <<>>
    /\ tried = <<>>
    /\ initial_floorplan = FloorPlan
    /\ current = FloorPlan
    /\ current_cost = 0
    /\ best = FloorPlan
    /\ best_cost = 0
    /\ temperature = 0
    /\ iter = 0
    /\ step = 0
    /\ last = NoIteration
    /\ initial_temp = input.initial_temp
    /\ iterations_per_temp = input.iterations_per_temp
    /\ post = [iteration |-> 0, passes |-> 0, corner_blocks |-> << >>]
    /\ result = [kind |-> "none"]

\* An entry that validates the ratio bound before it looks at the list.
ValidateThenReturnEmpty ==
    /\ pc = "start"
    /\ blocks = <<>>
    /\ pc' = "done"
    /\ result' = IF max_aspect_ratio < 2
                 THEN [kind |-> "ValueError", error |-> "invalid aspect ratio"]
                 ELSE [kind |-> "returned", floorplan |-> FloorPlan]
    /\ UNCHANGED <<heap, blocks, max_aspect_ratio, blocks_copy, neighbor_groups,
                   tried, initial_floorplan, current, current_cost, best,
                   best_cost, temperature, iter, step, last, initial_temp,
                   iterations_per_temp, post>>

\* if not blocks: return FloorPlan()
ReturnEmpty ==
    /\ pc = "start"
    /\ blocks = <<>>
    /\ pc' = "done"
    /\ result' = [kind |-> "returned", floorplan |-> FloorPlan]
    /\ UNCHANGED <<heap, blocks, max_aspect_ratio, blocks_copy, neighbor_groups,
                   tried, initial_floorplan, current, current_cost, best,
                   best_cost, temperature, iter, step, last, initial_temp,
                   iterations_per_temp, post>>

\* raise ValueError(f"Block '{block.name}' has invalid dimensions: ...")
RaiseInvalidDimensions ==
    /\ pc = "start"
    /\ blocks # <<>>
    /\ \E i \in 1..Len(blocks) :
          /\ InvalidDimensions(heap[blocks[i]])
          /\ \A j \in 1..(i - 1) : ~InvalidDimensions(heap[blocks[j]])
          /\ result' = [kind |-> "ValueError", error |-> "invalid dimensions",
                        block |-> heap[blocks[i]].name]
    /\ pc' = "done"
    /\ UNCHANGED <<heap, blocks, max_aspect_ratio, blocks_copy, neighbor_groups,
                   tried, initial_floorplan, current, current_cost, best,
                   best_cost, temperature, iter, step, last, initial_temp,
                   iterations_per_temp, post>>

\* A validation that refuses a ratio bound of zero or less only.
NonPositiveAspectRatio(m) == m <= 0

\* if max_aspect_ratio < 1.0 (the bound is in halves)
InvalidAspectRatio(m) == m < 2

\* raise ValueError(f"Max aspect ratio must be >= 1.0, got ...")
RaiseInvalidAspectRatio ==
    /\ pc = "start"
    /\ blocks # <<>>
    /\ \A i \in 1..Len(blocks) : ~InvalidDimensions(heap[blocks[i]])
    /\ InvalidAspectRatio(max_aspect_ratio)
    /\ pc' = "done"
    /\ result' = [kind |-> "ValueError", error |-> "invalid aspect ratio"]
    /\ UNCHANGED <<heap, blocks, max_aspect_ratio, blocks_copy, neighbor_groups,
                   tried, initial_floorplan, current, current_cost, best,
                   best_cost, temperature, iter, step, last, initial_temp,
                   iterations_per_temp, post>>

\* A copy of the list that shares the caller's block objects.
shallow_copy_blocks(h, ids) == [heap |-> h, ids |-> ids]

\* blocks_copy = [copy.deepcopy(block) for block in blocks]
deepcopy_blocks(h, ids) == [heap |-> DeepCopyHeap(h, ids), ids |-> DeepCopyIds(h, ids)]

CopyBlocks ==
    /\ pc = "start"
    /\ blocks # <<>>
    /\ \A i \in 1..Len(blocks) : ~InvalidDimensions(heap[blocks[i]])
    /\ ~InvalidAspectRatio(max_aspect_ratio)
    /\ LET c == deepcopy_blocks(heap, blocks)
       IN heap' = c.heap /\ blocks_copy' = c.ids
    /\ pc' = "copied"
    /\ UNCHANGED <<blocks, max_aspect_ratio, neighbor_groups,
                   tried, initial_floorplan, current, current_cost, best,
                   best_cost, temperature, iter, step, last, initial_temp,
                   iterations_per_temp, post, result>>

\* initial_floorplan = _get_initial_solution(blocks_copy)
GetInitialSolution ==
    /\ pc = "copied"
    /\ \E r \in {get_initial_solution(Vals(heap, blocks_copy))} :
          /\ heap' = Store(heap, blocks_copy, r.bs)
          /\ neighbor_groups' = r.groups
          /\ tried' = r.tried
          /\ initial_floorplan' =
                Updated(heap', [k \in 1..Len(r.order) |-> blocks_copy[r.order[k]]])
    /\ pc' = "initial"
    /\ UNCHANGED <<blocks, max_aspect_ratio, blocks_copy, current, current_cost,
                   best, best_cost, temperature, iter, step, last, initial_temp,
                   iterations_per_temp, post, result>>

\* An initialisation in which best is current itself, not a copy of it.
StartAnnealingShared ==
    /\ pc = "initial"
    /\ LET n == Len(initial_floorplan.blocks)
           bs == Vals(heap, initial_floorplan.blocks)
           h == heap \o bs
           cur == Updated(h, [k \in 1..n |-> Len(heap) + k])
       IN /\ Objects(h, initial_floorplan, cur, cur, NoIteration)
          /\ current_cost' = calculate_cost(bs, max_aspect_ratio)
          /\ best_cost' = calculate_cost(bs, max_aspect_ratio)
    /\ temperature' = initial_temp
    /\ iter' = 0
    /\ step' = 0
    /\ pc' = "annealing"
    /\ UNCHANGED <<max_aspect_ratio, neighbor_groups, tried, initial_temp,
                   iterations_per_temp, post, result>>

\* current = deepcopy(initial_floorplan); best = deepcopy(current)
StartAnnealing ==
    /\ pc = "initial"
    /\ LET n == Len(initial_floorplan.blocks)
           bs == Vals(heap, initial_floorplan.blocks)
           h == heap \o bs \o bs
           cur == Updated(h, [k \in 1..n |-> Len(heap) + k])
           bst == [cur EXCEPT !.blocks = [k \in 1..n |-> Len(heap) + n + k]]
       IN /\ Objects(h, initial_floorplan, cur, bst, NoIteration)
          /\ current_cost' = calculate_cost(bs, max_aspect_ratio)
          /\ best_cost' = calculate_cost(bs, max_aspect_ratio)
    /\ temperature' = initial_temp
    /\ iter' = 0
    /\ step' = 0
    /\ pc' = "annealing"
    /\ UNCHANGED <<max_aspect_ratio, neighbor_groups, tried, initial_temp,
                   iterations_per_temp, post, result>>

(***************************************************************************)
(* _simulated_annealing: one iteration of the inner loop.  The candidate   *)
(* is a deep copy of current, perturbed and compacted; c = [bs, passes].   *)
(***************************************************************************)
InLoop == pc = "annealing" /\ temperature > final_temp /\ iter < iterations_per_temp

\* A candidate that has lost the last block of its list.
CandidateLosingBlock(c) ==
    Updated(heap \o c.bs, [k \in 1..(Len(c.bs) - 1) |-> Len(heap) + k])

Candidate(c) ==
    Updated(heap \o c.bs, [k \in 1..Len(c.bs) |-> Len(heap) + k])

\* An iteration without the overlap test: the overlapping candidate goes
\* through the acceptance criterion, and the draw lets it through.
AcceptOverlapping ==
    /\ InLoop
    /\ \E perturbation \in Perturbations :
       \E c \in generate_neighbor(Vals(heap, current.blocks), perturbation) :
          /\ has_overlaps(c.bs)
          /\ Objects(heap \o c.bs, initial_floorplan, Candidate(c), best,
                     [perturbation |-> perturbation, outcome |-> "accept",
                      passes |-> c.passes, neighbor |-> Candidate(c)])
          /\ current_cost' = calculate_cost(c.bs, max_aspect_ratio)
    /\ iter' = iter + 1
    /\ UNCHANGED <<pc, max_aspect_ratio, neighbor_groups, tried,
                   best_cost, temperature, step, initial_temp,
                   iterations_per_temp, post, result>>

\* if neighbor.has_overlaps(): continue
HardReject ==
    /\ InLoop
    /\ \E perturbation \in Perturbations :
       \E c \in generate_neighbor(Vals(heap, current.blocks), perturbation) :
          /\ has_overlaps(c.bs)
          /\ Objects(heap \o c.bs, initial_floorplan, current, best,
                     [perturbation |-> perturbation, outcome |-> "hard_reject",
                      passes |-> c.passes, neighbor |-> Candidate(c)])
    /\ iter' = iter + 1
    /\ UNCHANGED <<pc, max_aspect_ratio, neighbor_groups, tried, current_cost,
                   best_cost, temperature, step, initial_temp,
                   iterations_per_temp, post, result>>

\* if delta < 0 or random.random() < math.exp(-delta / temperature):
\*     current = neighbor; ...; if current_cost < best_cost: best = deepcopy(current)
Accept ==
    /\ InLoop
    /\ \E perturbation \in Perturbations :
       \E c \in generate_neighbor(Vals(heap, current.blocks), perturbation) :
          LET neighbor == Candidate(c)
              neighbor_cost == calculate_cost(c.bs, max_aspect_ratio)
              delta == neighbor_cost - current_cost
              improved == CostLess(neighbor_cost, best_cost)
              h == IF improved THEN heap \o c.bs \o c.bs ELSE heap \o c.bs
              snapshot == [neighbor EXCEPT !.blocks =
                              [k \in 1..Len(c.bs) |-> Len(heap) + Len(c.bs) + k]]
          IN /\ ~has_overlaps(c.bs)
             /\ delta <= 0 \/ can_accept_worse(delta, temperature)
             /\ Objects(h, initial_floorplan, neighbor,
                        IF improved THEN snapshot ELSE best,
                        [perturbation |-> perturbation, outcome |-> "accept",
                         passes |-> c.passes, neighbor |-> neighbor])
             /\ current_cost' = neighbor_cost
             /\ best_cost' = IF improved THEN neighbor_cost ELSE best_cost
    /\ iter' = iter + 1
    /\ UNCHANGED <<pc, max_aspect_ratio, neighbor_groups, tried, temperature,
                   step, initial_temp, iterations_per_temp, post, result>>

\* The else of the acceptance criterion: delta > 0 and the draw is not below
\* the exponential.
Reject ==
    /\ InLoop
    /\ \E perturbation \in Perturbations :
       \E c \in generate_neighbor(Vals(heap, current.blocks), perturbation) :
          /\ ~has_overlaps(c.bs)
          /\ calculate_cost(c.bs, max_aspect_ratio) - current_cost > 0
          /\ Objects(heap \o c.bs, initial_floorplan, current, best,
                     [perturbation |-> perturbation, outcome |-> "reject",
                      passes |-> c.passes, neighbor |-> Candidate(c)])
    /\ iter' = iter + 1
    /\ UNCHANGED <<pc, max_aspect_ratio, neighbor_groups, tried, current_cost,
                   best_cost, temperature, step, initial_temp,
                   iterations_per_temp, post, result>>

\* temperature *= cooling_rate, after the for loop
CoolDown ==
    /\ pc = "annealing"
    /\ temperature > final_temp
    /\ iter = iterations_per_temp
    /\ temperature' = cool_down(temperature)
    /\ iter' = 0
    /\ step' = step + 1
    /\ UNCHANGED <<pc, heap, blocks, max_aspect_ratio, blocks_copy,
                   neighbor_groups, tried, initial_floorplan, current,
                   current_cost, best, best_cost, last, initial_temp,
                   iterations_per_temp, post, result>>

(***************************************************************************)
(* The post-pass on best, and the return.                                  *)
(***************************************************************************)
\* The while loop ends and _simulated_annealing returns best: its other
\* locals are gone.  _enforce_corner_constraints(best) identifies the corner
\* blocks.
EnterPostPass ==
    /\ pc = "annealing"
    /\ temperature <= final_temp
    /\ pc' = "enforce"
    /\ Objects(heap, initial_floorplan, FloorPlan, best, NoIteration)
    /\ current_cost' = 0
    /\ post' = [iteration |-> 0, passes |-> 0,
                corner_blocks |-> corner_blocks(Vals(heap, best.blocks))]
    /\ UNCHANGED <<max_aspect_ratio, neighbor_groups, tried, best_cost,
                   temperature, iter, step, initial_temp, iterations_per_temp,
                   result>>

\* A post-pass that compacts the layout also when it found no corner block.
ReturnCompacted ==
    /\ pc = "enforce"
    /\ DOMAIN post.corner_blocks = {}
    /\ pc' = "done"
    /\ \E r \in {compact_with_locked_corners(
                    [bs |-> Vals(heap, best.blocks),
                     bw |-> bounding_width(Vals(heap, best.blocks)),
                     bh |-> bounding_height(Vals(heap, best.blocks))],
                    post.corner_blocks)} :
          /\ heap' = Store(heap, best.blocks, r.st.bs)
          /\ best' = [best EXCEPT !.bounding_width = r.st.bw,
                                  !.bounding_height = r.st.bh]
          /\ result' = [kind |-> "returned", floorplan |-> best']
    /\ UNCHANGED <<blocks, max_aspect_ratio, blocks_copy, neighbor_groups,
                   tried, initial_floorplan, current, current_cost,
                   best_cost, temperature, iter, step, last, initial_temp,
                   iterations_per_temp, post>>

\* if not corner_blocks: return
ReturnWithoutCorners ==
    /\ pc = "enforce"
    /\ DOMAIN post.corner_blocks = {}
    /\ pc' = "done"
    /\ result' = [kind |-> "returned", floorplan |-> best]
    /\ UNCHANGED <<heap, blocks, max_aspect_ratio, blocks_copy, neighbor_groups,
                   tried, initial_floorplan, current, current_cost, best,
                   best_cost, temperature, iter, step, last, initial_temp,
                   iterations_per_temp, post>>

Stored(fp) ==
    [bs |-> Vals(heap, fp.blocks), bw |-> fp.bounding_width, bh |-> fp.bounding_height]

\* One iteration of for iteration in range(max_iterations).
EnforceIteration ==
    /\ pc = "enforce"
    /\ DOMAIN post.corner_blocks # {}
    /\ post.iteration < max_iterations_enforce
    /\ \E order \in IterationOrders(Stored(best), post.corner_blocks) :
       \E r \in {enforce_iteration(Stored(best), post.corner_blocks, order)} :
             /\ heap' = Store(heap, best.blocks, r.st.bs)
             /\ best' = [best EXCEPT !.bounding_width = r.st.bw,
                                     !.bounding_height = r.st.bh]
             /\ post' = [post EXCEPT !.iteration = post.iteration + 1]
             /\ pc' = IF r.break \/ post.iteration + 1 >= max_iterations_enforce
                      THEN "compact" ELSE "enforce"
    /\ UNCHANGED <<blocks, max_aspect_ratio, blocks_copy, neighbor_groups,
                   tried, initial_floorplan, current, current_cost,
                   best_cost, temperature, iter, step, last, initial_temp,
                   iterations_per_temp, result>>

\* _compact_with_locked_corners(floorplan, corner_blocks); return best
CompactAndReturn ==
    /\ pc = "compact"
    /\ \E r \in {compact_with_locked_corners(update_bounding_box(Stored(best)),
                                             post.corner_blocks)} :
          /\ heap' = Store(heap, best.blocks, r.st.bs)
          /\ best' = [best EXCEPT !.bounding_width = r.st.bw,
                                  !.bounding_height = r.st.bh]
          /\ post' = [post EXCEPT !.passes = r.passes]
          /\ result' = [kind |-> "returned", floorplan |-> best']
    /\ pc' = "done"
    /\ UNCHANGED <<blocks, max_aspect_ratio, blocks_copy, neighbor_groups,
                   tried, initial_floorplan, current, current_cost,
                   best_cost, temperature, iter, step, last, initial_temp,
                   iterations_per_temp>>

Next ==
    \/ ReturnEmpty
    \/ RaiseInvalidDimensions
    \/ RaiseInvalidAspectRatio
    \/ CopyBlocks
    \/ GetInitialSolution
    \/ StartAnnealing
    \/ HardReject
    \/ Accept
    \/ Reject
    \/ CoolDown
    \/ EnterPostPass
    \/ ReturnWithoutCorners
    \/ EnforceIteration
    \/ CompactAndReturn

(***************************************************************************)
(* The calls explored.  A call is a list of Block(name, width, height,     *)
(* preferred_location, neighbor), a max_aspect_ratio in halves, and the    *)
(* part of the annealing schedule that is explored: the last               *)
(* StepsExplored temperature steps of the schedule, IterationsExplored     *)
(* iterations at each.                                                     *)
(***************************************************************************)
StepsExplored == 2

IterationsExplored == 2

Call(bl, m) ==
    [blocks |-> bl, max_aspect_ratio |-> m,
     initial_temp |-> schedule_tail[StepsExplored],
     iterations_per_temp |-> IterationsExplored]

\* The whole schedule of temperatures, and all the iterations of a step.
WholeSchedule(bl, m) ==
    [Call(bl, m) EXCEPT !.initial_temp = code_initial_temp]

WholeStep(bl, m) ==
    [Call(bl, m) EXCEPT !.iterations_per_temp = code_iterations_per_temp]

Calls ==
    { Call(<<>>, 4), Call(<<>>, 1),
      Call(<< <<"A", 1, 1, DontCare, None>> >>, 1),
      Call(<< <<"A", 1, 1, DontCare, None>> >>, 2),
      Call(<< <<"A", 1, 1, DontCare, None>>, <<"Y", 2, -1, DontCare, None>>,
              <<"Z", 0, 2, DontCare, None>> >>, 4),
      Call(<< <<"A", 1, 2, DontCare, None>> >>, 4),
      Call(<< <<"A", 2, 1, DontCare, None>>, <<"B", 1, 1, DontCare, "A">> >>, 4),
      Call(<< <<"A", 4, 1, DontCare, "B">>,
              <<"B", 1, 1, "bottom-right-corner", None>> >>, 4),
      Call(<< <<"A", 3, 3, "top-left-corner", None>>,
              <<"B", 3, 3, "top-left-corner", None>> >>, 4),
      Call(<< <<"A", 1, 1, DontCare, None>>, <<"B", 1, 2, DontCare, "A">>,
              <<"C", 2, 1, DontCare, "A">> >>, 4),
      Call(<< <<"A", 10, 10, DontCare, None>>, <<"B", 10, 10, DontCare, "A">>,
              <<"C", 20, 5, "top-left-corner", None>> >>, 4),
      WholeSchedule(<< <<"A", 1, 1, DontCare, None>> >>, 4),
      WholeStep(<< <<"A", 1, 1, DontCare, None>> >>, 4) }

Init == \E input \in Calls : InitOn(input)

Spec == Init /\ [][Next]_vars

(***************************************************************************)
(* The methods of Block, called on two block objects.  heap holds the two  *)
(* objects, last the method called last with the object as it was before   *)
(* the call, result the last test: the two objects tested and what the     *)
(* test returned.  The variables of                                        *)
(* calculate_floorplan stay as they are when no call is made.              *)
(***************************************************************************)
MaxCoord == 2

MaxSide == 2

NoCall ==
    /\ blocks = <<>>
    /\ max_aspect_ratio = 4
    /\ blocks_copy = <<>>
    /\ neighbor_groups = <<>>
    /\ tried = <<>>
    /\ initial_floorplan = FloorPlan
    /\ current = FloorPlan
    /\ current_cost = 0
    /\ best = FloorPlan
    /\ best_cost = 0
    /\ temperature = 0
    /\ iter = 0
    /\ step = 0
    /\ initial_temp = code_initial_temp
    /\ iterations_per_temp = code_iterations_per_temp
    /\ post = [iteration |-> 0, passes |-> 0, corner_blocks |-> << >>]

\* Block(name, width, height) placed at (x, y) by an assignment of x and y.
BlockAt(name, width, height, x, y) ==
    [NewBlock(name, width, height, DontCare, None) EXCEPT !.x = x, !.y = y]

BlockInit ==
    /\ pc = "blocks"
    /\ \E w1, h1, w2, h2 \in 1..MaxSide : \E x1, y1, x2, y2 \in 0..MaxCoord :
          heap = << BlockAt("A", w1, h1, x1, y1), BlockAt("B", w2, h2, x2, y2) >>
    /\ last = [op |-> "none"]
    /\ result = [kind |-> "none"]
    /\ NoCall

\* heap[i].rotate()
CallRotate ==
    /\ pc = "blocks"
    /\ \E i \in 1..Len(heap) :
          /\ heap' = [heap EXCEPT ![i] = rotate(heap[i])]
          /\ last' = [op |-> "rotate", block |-> i, before |-> heap[i]]
    /\ UNCHANGED <<pc, blocks, max_aspect_ratio, blocks_copy, neighbor_groups,
                   tried, initial_floorplan, current, current_cost, best,
                   best_cost, temperature, iter, step, initial_temp,
                   iterations_per_temp, post, result>>

\* heap[i].reset_rotation()
CallResetRotation ==
    /\ pc = "blocks"
    /\ \E i \in 1..Len(heap) :
          /\ heap' = [heap EXCEPT ![i] = reset_rotation(heap[i])]
          /\ last' = [op |-> "reset_rotation", block |-> i, before |-> heap[i]]
    /\ UNCHANGED <<pc, blocks, max_aspect_ratio, blocks_copy, neighbor_groups,
                   tried, initial_floorplan, current, current_cost, best,
                   best_cost, temperature, iter, step, initial_temp,
                   iterations_per_temp, post, result>>

\* heap[i].abuts(heap[j]); i = j is the block tested against itself.
CallAbuts ==
    /\ pc = "blocks"
    /\ \E i, j \in 1..Len(heap) :
          result' = [kind |-> "abuts", self |-> heap[i], other |-> heap[j],
                     same |-> i = j, value |-> abuts(heap[i], heap[j])]
    /\ UNCHANGED <<pc, heap, blocks, max_aspect_ratio, blocks_copy,
                   neighbor_groups, tried, initial_floorplan, current,
                   current_cost, best, best_cost, temperature, iter, step, last,
                   initial_temp, iterations_per_temp, post>>

\* heap[i].overlaps(heap[j])
CallOverlaps ==
    /\ pc = "blocks"
    /\ \E i, j \in 1..Len(heap) :
          result' = [kind |-> "overlaps", self |-> heap[i], other |-> heap[j],
                     same |-> i = j, value |-> overlaps(heap[i], heap[j])]
    /\ UNCHANGED <<pc, heap, blocks, max_aspect_ratio, blocks_copy,
                   neighbor_groups, tried, initial_floorplan, current,
                   current_cost, best, best_cost, temperature, iter, step, last,
                   initial_temp, iterations_per_temp, post>>

BlockNext == CallRotate \/ CallResetRotation \/ CallAbuts \/ CallOverlaps

BlockSpec == BlockInit /\ [][BlockNext]_vars

(***************************************************************************)
(* _group_neighbors, called on a list of up to MaxGrouped blocks with      *)
(* unique names.  A block names no neighbor, a block of the list (itself   *)
(* included) or a name that is not in the list.                            *)
(***************************************************************************)
MaxGrouped == 4

BlockNames == <<"A", "B", "C", "D", "E", "F">>

Absent == "X"

GroupInit ==
    /\ pc = "group"
    /\ \E n \in 0..MaxGrouped :
       \E neighbor \in [1..n -> {None, Absent} \cup {BlockNames[k] : k \in 1..n}] :
          /\ heap = [i \in 1..n |-> NewBlock(BlockNames[i], 1, 1, DontCare, neighbor[i])]
          /\ blocks = [i \in 1..n |-> i]
    /\ last = [op |-> "none"]
    /\ result = [kind |-> "none"]
    /\ max_aspect_ratio = 4
    /\ blocks_copy = <<>>
    /\ neighbor_groups = <<>>
    /\ tried = <<>>
    /\ initial_floorplan = FloorPlan
    /\ current = FloorPlan
    /\ current_cost = 0
    /\ best = FloorPlan
    /\ best_cost = 0
    /\ temperature = 0
    /\ iter = 0
    /\ step = 0
    /\ initial_temp = code_initial_temp
    /\ iterations_per_temp = code_iterations_per_temp
    /\ post = [iteration |-> 0, passes |-> 0, corner_blocks |-> << >>]

\* groups = _group_neighbors(blocks)
CallGroupNeighbors ==
    /\ pc = "group"
    /\ pc' = "grouped"
    /\ result' = [kind |-> "groups", groups |-> group_neighbors(Vals(heap, blocks))]
    /\ UNCHANGED <<heap, blocks, max_aspect_ratio, blocks_copy, neighbor_groups,
                   tried, initial_floorplan, current, current_cost, best,
                   best_cost, temperature, iter, step, last, initial_temp,
                   iterations_per_temp, post>>

GroupNext == CallGroupNeighbors

GroupSpec == GroupInit /\ [][GroupNext]_vars

(***************************************************************************)
(* _calculate_cost, called on two floorplans of the same blocks: up to     *)
(* MaxPinned square blocks with the same preference and neighbor, in a row *)
(* from the origin or stacked on the origin, above a bar as wide as the    *)
(* row, or of no block.  current is the first floorplan and best the       *)
(* second.                                                                 *)
(***************************************************************************)
MaxPinned == 12

PinNames == <<"P1", "P2", "P3", "P4", "P5", "P6", "P7", "P8", "P9", "P10",
              "P11", "P12", "P13", "P14">>

Sides == {3, 4}

Arrangements == {"row", "stacked"}

\* The blocks of one floorplan: the n pinned blocks, then the bar; no block
\* when n = 0.
Arranged(n, side, pref, neighbor, arrangement) ==
    [k \in 1..(IF n = 0 THEN 0 ELSE n + 1) |->
        IF k <= n
        THEN [NewBlock(PinNames[k], side, side, pref, neighbor)
                 EXCEPT !.x = IF arrangement = "row" THEN (k - 1) * side ELSE 0]
        ELSE [NewBlock("D", n * side, side, DontCare, None) EXCEPT !.y = side]]

CostInit ==
    /\ pc = "cost"
    /\ \E n \in 0..MaxPinned, side \in Sides,
          pref \in {DontCare, "top-left-corner"},
          neighbor \in {None, Absent, "P1", "D"},
          first \in Arrangements, second \in Arrangements :
          LET len == Len(Arranged(n, side, pref, neighbor, first))
          IN /\ heap = Arranged(n, side, pref, neighbor, first)
                          \o Arranged(n, side, pref, neighbor, second)
             /\ current = [FloorPlan EXCEPT !.blocks = [k \in 1..len |-> k]]
             /\ best = [FloorPlan EXCEPT !.blocks = [k \in 1..len |-> len + k]]
    /\ blocks = <<>>
    /\ last = [op |-> "none"]
    /\ result = [kind |-> "none"]
    /\ max_aspect_ratio = 4
    /\ blocks_copy = <<>>
    /\ neighbor_groups = <<>>
    /\ tried = <<>>
    /\ initial_floorplan = FloorPlan
    /\ current_cost = 0
    /\ best_cost = 0
    /\ temperature = 0
    /\ iter = 0
    /\ step = 0
    /\ initial_temp = code_initial_temp
    /\ iterations_per_temp = code_iterations_per_temp
    /\ post = [iteration |-> 0, passes |-> 0, corner_blocks |-> << >>]

\* current_cost = _calculate_cost(current, max_aspect_ratio)
CallCalculateCost ==
    /\ pc = "cost"
    /\ pc' = "cost_of_best"
    /\ current' = Updated(heap, current.blocks)
    /\ current_cost' = calculate_cost(Vals(heap, current.blocks), max_aspect_ratio)
    /\ UNCHANGED <<heap, blocks, max_aspect_ratio, blocks_copy, neighbor_groups,
                   tried, initial_floorplan, best, best_cost, temperature, iter,
                   step, last, initial_temp, iterations_per_temp, post, result>>

\* best_cost = _calculate_cost(best, max_aspect_ratio)
CallCalculateCostOfBest ==
    /\ pc = "cost_of_best"
    /\ pc' = "costed"
    /\ best' = Updated(heap, best.blocks)
    /\ best_cost' = calculate_cost(Vals(heap, best.blocks), max_aspect_ratio)
    /\ UNCHANGED <<heap, blocks, max_aspect_ratio, blocks_copy, neighbor_groups,
                   tried, initial_floorplan, current, current_cost, temperature,
                   iter, step, last, initial_temp, iterations_per_temp, post,
                   result>>

CostNext == CallCalculateCost \/ CallCalculateCostOfBest

CostSpec == CostInit /\ [][CostNext]_vars

(***************************************************************************)
(* The 'move' perturbation of _generate_neighbor, before the compaction,   *)
(* on a floorplan of two blocks: A names B, and B names A or no block.     *)
(* current is the copy that is perturbed.                                  *)
(***************************************************************************)
MoveInit ==
    /\ pc = "move"
    /\ \E wa, ha, wb, hb \in 1..MaxSide, xa, ya, xb, yb \in 0..MaxCoord,
          back \in {None, "A"} :
          heap = <<[NewBlock("A", wa, ha, DontCare, "B") EXCEPT !.x = xa, !.y = ya],
                   [NewBlock("B", wb, hb, DontCare, back) EXCEPT !.x = xb, !.y = yb]>>
    /\ current = [FloorPlan EXCEPT !.blocks = <<1, 2>>]
    /\ blocks = <<>>
    /\ last = [op |-> "none"]
    /\ result = [kind |-> "none"]
    /\ max_aspect_ratio = 4
    /\ blocks_copy = <<>>
    /\ neighbor_groups = <<>>
    /\ tried = <<>>
    /\ initial_floorplan = FloorPlan
    /\ current_cost = 0
    /\ best = FloorPlan
    /\ best_cost = 0
    /\ temperature = 0
    /\ iter = 0
    /\ step = 0
    /\ initial_temp = code_initial_temp
    /\ iterations_per_temp = code_iterations_per_temp
    /\ post = [iteration |-> 0, passes |-> 0, corner_blocks |-> << >>]

\* elif perturbation == 'move': the block and the offsets are random.
CallMove ==
    /\ pc = "move"
    /\ pc' = "moved"
    /\ LET bs == Vals(heap, current.blocks)
           pool == IF Unconstrained(bs) # {} THEN Unconstrained(bs) ELSE Indices(bs)
           max_dim == Max(bounding_width(bs), bounding_height(bs))
           r == Min(max_dim \div 2, MaxOffset)
       IN \E i \in pool, dx \in (-r)..r, dy \in (-r)..r :
             /\ heap' = Store(heap, current.blocks, MoveBlock(bs, i, dx, dy))
             /\ last' = [op |-> "move", block |-> i, dx |-> dx, dy |-> dy,
                         before |-> bs]
    /\ current' = Updated(heap, current.blocks)
    /\ UNCHANGED <<blocks, max_aspect_ratio, blocks_copy, neighbor_groups,
                   tried, initial_floorplan, current_cost, best, best_cost,
                   temperature, iter, step, initial_temp, iterations_per_temp,
                   post, result>>

MoveNext == CallMove

MoveSpec == MoveInit /\ [][MoveNext]_vars

(***************************************************************************)
(* _optimize_placement and _compact_with_locked_corners, called on a       *)
(* floorplan of three blocks: A, of any size, place and preference of the  *)
(* bounds; L at the origin, short or long; R, right of a short or a long   *)
(* L.  current is the floorplan.                                           *)
(***************************************************************************)
\* A side as long as the step of the grid of the final packing.
LongSide == tetris_step

CompactedPrefs == {DontCare, "top-left-corner", "top-left", "bottom-right",
                   "center", "bottom-right-quad"}

CompactionInit ==
    /\ pc = "compaction"
    /\ \E w, h \in 1..MaxSide, x, y \in 0..MaxCoord, pref \in CompactedPrefs,
          wl \in {1, LongSide}, prefl \in {DontCare, "top-left-corner"},
          xr \in {3, LongSide + 1}, prefr \in {DontCare, "top-right-corner"} :
          heap = <<[NewBlock("A", w, h, pref, None) EXCEPT !.x = x, !.y = y],
                   NewBlock("L", wl, 1, prefl, None),
                   [NewBlock("R", 1, 2, prefr, None) EXCEPT !.x = xr]>>
    /\ current = Updated(heap, <<1, 2, 3>>)
    /\ blocks = <<>>
    /\ last = [op |-> "none"]
    /\ result = [kind |-> "none"]
    /\ max_aspect_ratio = 4
    /\ blocks_copy = <<>>
    /\ neighbor_groups = <<>>
    /\ tried = <<>>
    /\ initial_floorplan = FloorPlan
    /\ current_cost = 0
    /\ best = FloorPlan
    /\ best_cost = 0
    /\ temperature = 0
    /\ iter = 0
    /\ step = 0
    /\ initial_temp = code_initial_temp
    /\ iterations_per_temp = code_iterations_per_temp
    /\ post = [iteration |-> 0, passes |-> 0, corner_blocks |-> << >>]

\* _optimize_placement(floorplan)
CallOptimizePlacement ==
    /\ pc = "compaction"
    /\ pc' = "optimized"
    /\ heap' = Store(heap, current.blocks,
                     optimize_placement(Vals(heap, current.blocks)))
    /\ current' = Updated(heap', current.blocks)
    /\ last' = [op |-> "optimize_placement", before |-> Vals(heap, current.blocks)]
    /\ UNCHANGED <<blocks, max_aspect_ratio, blocks_copy, neighbor_groups,
                   tried, initial_floorplan, current_cost, best, best_cost,
                   temperature, iter, step, initial_temp, iterations_per_temp,
                   post, result>>

\* _compact_with_locked_corners(floorplan, corner_blocks), with the corner
\* blocks that _enforce_corner_constraints identifies.
CallCompactWithLockedCorners ==
    /\ pc = "compaction"
    /\ pc' = "compacted"
    /\ \E cb \in {corner_blocks(Vals(heap, current.blocks))} :
       \E r \in {compact_with_locked_corners(Stored(current), cb)} :
          /\ heap' = Store(heap, current.blocks, r.st.bs)
          /\ current' = [current EXCEPT !.bounding_width = r.st.bw,
                                        !.bounding_height = r.st.bh]
          /\ post' = [post EXCEPT !.passes = r.passes, !.corner_blocks = cb]
    /\ last' = [op |-> "compact_with_locked_corners",
                before |-> Vals(heap, current.blocks)]
    /\ UNCHANGED <<blocks, max_aspect_ratio, blocks_copy, neighbor_groups,
                   tried, initial_floorplan, current_cost, best, best_cost,
                   temperature, iter, step, initial_temp, iterations_per_temp,
                   result>>

CompactionNext == CallOptimizePlacement \/ CallCompactWithLockedCorners

CompactionSpec == CompactionInit /\ [][CompactionNext]_vars

(***************************************************************************)
(* One iteration of the snapping loop of _enforce_corner_constraints, on a *)
(* floorplan of three blocks: C, for the top-left corner; N, with no       *)
(* preference; K, for the bottom-right corner or with no preference.       *)
(* current is the floorplan; last keeps the floorplan as the snapping left *)
(* it and the order in which the set of overlapping blocks is iterated.    *)
(***************************************************************************)
EnforceInit ==
    /\ pc = "snapping"
    /\ \E wc, hc, wn, hn \in 1..MaxSide, xc \in 0..1, xn, yn, xk, yk \in 0..MaxCoord,
          prefk \in {DontCare, "bottom-right-corner"} :
          heap = <<[NewBlock("C", wc, hc, "top-left-corner", None) EXCEPT !.x = xc],
                   [NewBlock("N", wn, hn, DontCare, None) EXCEPT !.x = xn, !.y = yn],
                   [NewBlock("K", 1, 1, prefk, None) EXCEPT !.x = xk, !.y = yk]>>
    /\ current = Updated(heap, <<1, 2, 3>>)
    /\ blocks = <<>>
    /\ last = [op |-> "none"]
    /\ result = [kind |-> "none"]
    /\ max_aspect_ratio = 4
    /\ blocks_copy = <<>>
    /\ neighbor_groups = <<>>
    /\ tried = <<>>
    /\ initial_floorplan = FloorPlan
    /\ current_cost = 0
    /\ best = FloorPlan
    /\ best_cost = 0
    /\ temperature = 0
    /\ iter = 0
    /\ step = 0
    /\ initial_temp = code_initial_temp
    /\ iterations_per_temp = code_iterations_per_temp
    /\ post = [iteration |-> 0, passes |-> 0, corner_blocks |-> << >>]

\* The first iteration of for iteration in range(max_iterations).
CallEnforceIteration ==
    /\ pc = "snapping"
    /\ pc' = "snapped"
    /\ \E cb \in {corner_blocks(Vals(heap, current.blocks))} :
       \E order \in IterationOrders(Stored(current), cb) :
       \E r \in {enforce_iteration(Stored(current), cb, order)} :
          /\ heap' = Store(heap, current.blocks, r.st.bs)
          /\ current' = [current EXCEPT !.bounding_width = r.st.bw,
                                        !.bounding_height = r.st.bh]
          /\ post' = [post EXCEPT !.iteration = 1, !.corner_blocks = cb]
          /\ last' = [op |-> "enforce_iteration", order |-> order,
                      snapped |-> Snap(update_bounding_box(Stored(current)), cb).st]
    /\ UNCHANGED <<blocks, max_aspect_ratio, blocks_copy, neighbor_groups,
                   tried, initial_floorplan, current_cost, best, best_cost,
                   temperature, iter, step, initial_temp, iterations_per_temp,
                   result>>

EnforceNext == CallEnforceIteration

EnforceSpec == EnforceInit /\ [][EnforceNext]_vars

(***************************************************************************)
(* The 'repack' perturbation of _generate_neighbor and the compaction that *)
(* follows it, on a floorplan of three blocks of any size of the bounds,   *)
(* each at one of four places, so that they overlap or not.  current is    *)
(* the copy that is perturbed; last keeps it as the repacking left it.     *)
(***************************************************************************)
RepackInit ==
    /\ pc = "repack"
    /\ \E w \in [1..3 -> 1..MaxSide], h \in [1..3 -> 1..MaxSide],
          x \in [1..3 -> 0..1], y \in [1..3 -> 0..1] :
          heap = [k \in 1..3 |->
                    [NewBlock(BlockNames[k], w[k], h[k], DontCare, None)
                        EXCEPT !.x = x[k], !.y = y[k]]]
    /\ current = Updated(heap, <<1, 2, 3>>)
    /\ blocks = <<>>
    /\ last = [op |-> "none"]
    /\ result = [kind |-> "none"]
    /\ max_aspect_ratio = 4
    /\ blocks_copy = <<>>
    /\ neighbor_groups = <<>>
    /\ tried = <<>>
    /\ initial_floorplan = FloorPlan
    /\ current_cost = 0
    /\ best = FloorPlan
    /\ best_cost = 0
    /\ temperature = 0
    /\ iter = 0
    /\ step = 0
    /\ initial_temp = code_initial_temp
    /\ iterations_per_temp = code_iterations_per_temp
    /\ post = [iteration |-> 0, passes |-> 0, corner_blocks |-> << >>]

\* elif perturbation == 'repack': ...; _optimize_placement(neighbor).  The
\* shuffle is the permutation p of the list.
CallRepack ==
    /\ pc = "repack"
    /\ pc' = "repacked"
    /\ \E p \in Perms(Len(current.blocks)) :
       \E packed \in {Repack(Vals(heap, current.blocks), p)} :
       \E ids \in {[k \in 1..Len(current.blocks) |-> current.blocks[p[k]]]} :
          /\ heap' = Store(heap, ids, optimize_placement(packed))
          /\ current' = Updated(heap', ids)
          /\ last' = [op |-> "repack", before |-> Vals(heap, current.blocks),
                      packed |-> packed]
    /\ UNCHANGED <<blocks, max_aspect_ratio, blocks_copy, neighbor_groups,
                   tried, initial_floorplan, current_cost, best, best_cost,
                   temperature, iter, step, initial_temp, iterations_per_temp,
                   post, result>>

RepackNext == CallRepack

RepackSpec == RepackInit /\ [][RepackNext]_vars

(***************************************************************************)
(* The loops of _place_row_based and _place_column_based, one group at a   *)
(* time, on three blocks of any size of the bounds, each naming the next   *)
(* block or none, grouped and sorted as calculate_floorplan does.  tried   *)
(* holds the loop's variables and the groups still to place; last keeps    *)
(* what the iteration decided: whether it started a new row or column and  *)
(* the position it handed to _place_group_at.                              *)
(***************************************************************************)
\* The loop body with a row closed as soon as the group passes max_width.
RowStepWrapping(st, group, current_x, current_y, row_height, max_width) ==
    LET bs1 == Oriented(st.bs, group)
        group_width == GroupWidthSum(bs1, group)
        group_height == GroupHeightMax(bs1, group)
        new_row == current_x > 0 /\ current_x + group_width > max_width
        cx == IF new_row THEN 0 ELSE current_x
        cy == IF new_row THEN current_y + row_height ELSE current_y
        rh == IF new_row THEN 0 ELSE row_height
    IN [st |-> PlaceInto([st EXCEPT !.bs = bs1], group, cx, cy),
        current_x |-> cx + group_width, current_y |-> cy,
        row_height |-> Max(rh, group_height),
        max_width |-> Max(max_width, cx + group_width),
        wrapped |-> new_row, x |-> cx, y |-> cy]

\* The body of `for group in neighbor_groups` in _place_row_based.
RowStep(st, group, current_x, current_y, row_height, max_width) ==
    LET bs1 == Oriented(st.bs, group)
        group_width == GroupWidthSum(bs1, group)
        group_height == GroupHeightMax(bs1, group)
        new_row == current_x > 0
                   /\ current_x + group_width > max_width + group_width * 2
        cx == IF new_row THEN 0 ELSE current_x
        cy == IF new_row THEN current_y + row_height ELSE current_y
        rh == IF new_row THEN 0 ELSE row_height
    IN [st |-> PlaceInto([st EXCEPT !.bs = bs1], group, cx, cy),
        current_x |-> cx + group_width, current_y |-> cy,
        row_height |-> Max(rh, group_height),
        max_width |-> Max(max_width, cx + group_width),
        wrapped |-> new_row, x |-> cx, y |-> cy]

\* The body of `for group in neighbor_groups` in _place_column_based.
ColumnStep(st, group, current_x, current_y, col_width, max_height) ==
    LET bs1 == Oriented(st.bs, group)
        group_width == GroupWidthMax(bs1, group)
        group_height == GroupHeightSum(bs1, group)
        new_col == current_y > 0
                   /\ current_y + group_height > max_height + group_height * 2
        cy == IF new_col THEN 0 ELSE current_y
        cx == IF new_col THEN current_x + col_width ELSE current_x
        cw == IF new_col THEN 0 ELSE col_width
    IN [st |-> PlaceInto([st EXCEPT !.bs = bs1], group, cx, cy),
        current_x |-> cx, current_y |-> cy + group_height,
        col_width |-> Max(cw, group_width),
        max_height |-> Max(max_height, cy + group_height),
        wrapped |-> new_col, x |-> cx, y |-> cy]

StrategyInit ==
    /\ pc \in {"rows", "columns"}
    /\ \E w \in [1..3 -> 1..MaxSide], h \in [1..3 -> 1..MaxSide],
          n \in [1..3 -> BOOLEAN] :
          heap = [k \in 1..3 |->
                    NewBlock(BlockNames[k], w[k], h[k], DontCare,
                             IF n[k] THEN BlockNames[(k % 3) + 1] ELSE None)]
    /\ blocks_copy = <<1, 2, 3>>
    /\ neighbor_groups = sorted_neighbor_groups(heap)
    /\ tried = [st |-> [bs |-> heap, order |-> <<>>], gs |-> neighbor_groups,
                current_x |-> 0, current_y |-> 0, extent |-> 0, longest |-> 0]
    /\ last = [op |-> "none", given |-> heap]
    /\ blocks = <<>>
    /\ result = [kind |-> "none"]
    /\ max_aspect_ratio = 4
    /\ initial_floorplan = FloorPlan
    /\ current = FloorPlan
    /\ current_cost = 0
    /\ best = FloorPlan
    /\ best_cost = 0
    /\ temperature = 0
    /\ iter = 0
    /\ step = 0
    /\ initial_temp = code_initial_temp
    /\ iterations_per_temp = code_iterations_per_temp
    /\ post = [iteration |-> 0, passes |-> 0, corner_blocks |-> << >>]

\* One iteration of the loop of _place_row_based: extent is row_height and
\* longest is max_width.
PlaceNextInRow ==
    /\ pc = "rows"
    /\ tried.gs # <<>>
    /\ \E r \in {RowStep(tried.st, Head(tried.gs), tried.current_x,
                         tried.current_y, tried.extent, tried.longest)} :
          /\ tried' = [st |-> r.st, gs |-> Tail(tried.gs),
                       current_x |-> r.current_x, current_y |-> r.current_y,
                       extent |-> r.row_height, longest |-> r.max_width]
          /\ heap' = r.st.bs
          /\ last' = [op |-> "row", given |-> last.given, wrapped |-> r.wrapped,
                      x |-> r.x, y |-> r.y, entered_at |-> tried.current_x]
    /\ pc' = IF Tail(tried.gs) = <<>> THEN "row_placed" ELSE "rows"
    /\ UNCHANGED <<blocks, max_aspect_ratio, blocks_copy, neighbor_groups,
                   initial_floorplan, current, current_cost, best, best_cost,
                   temperature, iter, step, initial_temp, iterations_per_temp,
                   post, result>>

\* One iteration of the loop of _place_column_based: extent is col_width
\* and longest is max_height.
PlaceNextInColumn ==
    /\ pc = "columns"
    /\ tried.gs # <<>>
    /\ \E r \in {ColumnStep(tried.st, Head(tried.gs), tried.current_x,
                            tried.current_y, tried.extent, tried.longest)} :
          /\ tried' = [st |-> r.st, gs |-> Tail(tried.gs),
                       current_x |-> r.current_x, current_y |-> r.current_y,
                       extent |-> r.col_width, longest |-> r.max_height]
          /\ heap' = r.st.bs
          /\ last' = [op |-> "column", given |-> last.given,
                      wrapped |-> r.wrapped, x |-> r.x, y |-> r.y,
                      entered_at |-> tried.current_y]
    /\ pc' = IF Tail(tried.gs) = <<>> THEN "column_placed" ELSE "columns"
    /\ UNCHANGED <<blocks, max_aspect_ratio, blocks_copy, neighbor_groups,
                   initial_floorplan, current, current_cost, best, best_cost,
                   temperature, iter, step, initial_temp, iterations_per_temp,
                   post, result>>

StrategyNext == PlaceNextInRow \/ PlaceNextInColumn

StrategySpec == StrategyInit /\ [][StrategyNext]_vars

(***************************************************************************)
(* The end of _simulated_annealing: the while loop is over and best is a   *)
(* layout of two blocks, A of any size of the bounds and B a unit square,  *)
(* each at any place of the bounds and with a preference of any kind:      *)
(* none, a quadrant, the centre, an exact corner or a legacy name.         *)
(***************************************************************************)
BestPrefs == {DontCare, "center", "top-left-quad", "bottom-right",
              "top-left-corner", "top-left"}

PostPassInit ==
    /\ pc = "annealing"
    /\ temperature = final_temp
    /\ \E w \in 1..MaxSide, h \in 1..MaxSide, xa \in 0..MaxCoord,
          ya \in 0..MaxCoord, xb \in 0..MaxCoord, yb \in 0..1,
          pa \in BestPrefs, pb \in {DontCare, "top-right-corner", "bottom-left-quad"} :
          heap = << [NewBlock("A", w, h, pa, None) EXCEPT !.x = xa, !.y = ya],
                    [NewBlock("B", 1, 1, pb, None) EXCEPT !.x = xb, !.y = yb] >>
    /\ best = Updated(heap, <<1, 2>>)
    /\ best_cost = 0
    /\ blocks = <<>>
    /\ last = NoIteration
    /\ result = [kind |-> "none"]
    /\ max_aspect_ratio = 4
    /\ blocks_copy = <<>>
    /\ neighbor_groups = <<>>
    /\ tried = <<>>
    /\ initial_floorplan = FloorPlan
    /\ current = FloorPlan
    /\ current_cost = 0
    /\ iter = 0
    /\ step = 0
    /\ initial_temp = code_initial_temp
    /\ iterations_per_temp = code_iterations_per_temp
    /\ post = [iteration |-> 0, passes |-> 0, corner_blocks |-> << >>]

PostPassNext ==
    \/ EnterPostPass
    \/ ReturnWithoutCorners
    \/ EnforceIteration
    \/ CompactAndReturn

PostPassSpec == PostPassInit /\ [][PostPassNext]_vars

(***************************************************************************)
(* Properties of calculate_floorplan.                                      *)
(***************************************************************************)
Returned == pc = "done" /\ result.kind = "returned"

\* The blocks of the layout handed back to the caller.
ReturnedBlocks == Vals(heap, result.floorplan.blocks)

\* The caller's blocks.
CallerBlocks == Vals(heap, blocks)

NonPositive(b) == b.width <= 0 \/ b.height <= 0

\* The call passes validation.
PassesValidation ==
    /\ blocks # <<>>
    /\ \A i \in 1..Len(blocks) : ~NonPositive(CallerBlocks[i])
    /\ max_aspect_ratio >= 2

\* C1: for every input that passes validation, the returned layout has no
\* two distinct blocks whose rectangles overlap.
ReturnedLayoutHasNoOverlap ==
    Returned /\ PassesValidation =>
        \A i, j \in 1..Len(ReturnedBlocks) :
            i # j => ~overlaps(ReturnedBlocks[i], ReturnedBlocks[j])

\* Nothing has been done for the call: no copy exists, and the caller's
\* blocks are as constructed.
NoWorkDone ==
    /\ Len(heap) = Len(blocks)
    /\ blocks_copy = <<>> /\ neighbor_groups = <<>> /\ tried = <<>>
    /\ initial_floorplan = FloorPlan /\ current = FloorPlan /\ best = FloorPlan
    /\ \A i \in 1..Len(blocks) :
          /\ CallerBlocks[i].x = 0 /\ CallerBlocks[i].y = 0
          /\ ~CallerBlocks[i].rotated
          /\ CallerBlocks[i].width = CallerBlocks[i].original_width
          /\ CallerBlocks[i].height = CallerBlocks[i].original_height

FirstNonPositive ==
    CHOOSE i \in 1..Len(blocks) :
        /\ NonPositive(CallerBlocks[i])
        /\ \A j \in 1..(i - 1) : ~NonPositive(CallerBlocks[j])

\* C2: a non-empty input with a block of width <= 0 or height <= 0 fails
\* with the invalid-dimension error naming the first such block, and
\* nothing is copied, grouped, placed, rotated or moved, and no layout is
\* produced.
InvalidDimensionFailsBeforeAnyWork ==
    (\E i \in 1..Len(blocks) : NonPositive(CallerBlocks[i])) =>
        /\ pc \in {"start", "done"}
        /\ NoWorkDone
        /\ pc = "done" =>
              result = [kind |-> "ValueError", error |-> "invalid dimensions",
                        block |-> CallerBlocks[FirstNonPositive].name]

\* The error names the first of two blocks with a bad dimension, the bad
\* dimension being its height.
InvalidDimensionRaised ==
    /\ pc = "done" /\ result.kind = "ValueError"
    /\ result.error = "invalid dimensions"
    /\ FirstNonPositive < Len(blocks)
    /\ CallerBlocks[FirstNonPositive].width > 0
    /\ NonPositive(CallerBlocks[Len(blocks)])

\* C3 as stated: for every block list, the empty one included, a call with
\* max_aspect_ratio < 1.0 fails with the invalid-aspect-ratio error and
\* returns no layout.
AspectRatioFailsForEveryList ==
    max_aspect_ratio < 2 /\ pc = "done" =>
        result = [kind |-> "ValueError", error |-> "invalid aspect ratio"]

\* C3: for every non-empty block list whose blocks all have width > 0 and
\* height > 0, a call with max_aspect_ratio < 1.0 fails with the
\* invalid-aspect-ratio error, before any work, and returns no layout.
AspectRatioFailsForValidBlocks ==
    /\ blocks # <<>>
    /\ \A i \in 1..Len(blocks) : ~NonPositive(CallerBlocks[i])
    /\ max_aspect_ratio < 2
    => /\ pc \in {"start", "done"}
       /\ NoWorkDone
       /\ pc = "done" =>
             result = [kind |-> "ValueError", error |-> "invalid aspect ratio"]

InvalidAspectRatioRaised ==
    /\ pc = "done" /\ blocks # <<>> /\ max_aspect_ratio < 2
    /\ result = [kind |-> "ValueError", error |-> "invalid aspect ratio"]

\* C4: a call on the empty list returns, without error, a layout with no
\* block and a 0 by 0 bounding box.
EmptyInputReturnsEmptyLayout ==
    blocks = <<>> =>
        /\ pc \in {"start", "done"}
        /\ pc = "done" =>
              /\ result.kind = "returned"
              /\ result.floorplan.blocks = <<>>
              /\ result.floorplan.bounding_width = 0
              /\ result.floorplan.bounding_height = 0

\* The empty list is returned for, whatever the ratio bound.
EmptyLayoutReturnedForBadRatio ==
    Returned /\ blocks = <<>> /\ max_aspect_ratio < 2

\* C5: no step of the call changes a block of the caller, and no block
\* object of the returned layout is one of the caller's.
CallerBlocksNeverMutated ==
    /\ [][CallerBlocks' = CallerBlocks]_vars
    /\ [](Returned => Range(result.floorplan.blocks) \cap Range(blocks) = {})

\* A layout is returned whose blocks were placed away from the origin and
\* rotated, the caller's blocks being where they were.
CopiesPlacedAndReturned ==
    /\ Returned
    /\ \E i \in 1..Len(ReturnedBlocks) : ReturnedBlocks[i].x > 0
    /\ \E i \in 1..Len(ReturnedBlocks) : ReturnedBlocks[i].rotated

\* The corner formula, within the 2-unit tolerance, for block b in a layout
\* whose bounding box is bw by bh.
AtExactCorner(b, bw, bh) ==
    LET tag == Legacy(b.preferred_location)
        left == tag \in {"top-left-corner", "bottom-left-corner"}
        top == tag \in {"top-left-corner", "top-right-corner"}
    IN /\ Abs(b.x - (IF left THEN 0 ELSE bw - b.width)) <= 2
       /\ Abs(b.y - (IF top THEN 0 ELSE bh - b.height)) <= 2

\* C6: in the returned layout every block with an exact-corner preference
\* is within 2 units of its corner of the layout's bounding box.
CornerBlocksAtTheirCorners ==
    Returned =>
        \A i \in 1..Len(ReturnedBlocks) :
            Legacy(ReturnedBlocks[i].preferred_location) \in CornerTags =>
                AtExactCorner(ReturnedBlocks[i], bounding_width(ReturnedBlocks),
                              bounding_height(ReturnedBlocks))

\* The block of the returned layout with the given name.
ReturnedBlock(name) ==
    ReturnedBlocks[CHOOSE i \in 1..Len(ReturnedBlocks) : ReturnedBlocks[i].name = name]

\* C7: when the input is two blocks and one names the other as its
\* neighbor, the two abut in the returned layout.
TwoBlockChainAbuts ==
    /\ Returned
    /\ Len(blocks) = 2
    /\ \E i, j \in 1..2 : i # j /\ CallerBlocks[i].neighbor = CallerBlocks[j].name
    => abuts(ReturnedBlocks[1], ReturnedBlocks[2])

\* The input A(10x10), B(10x10, neighbor A), C(20x5, top-left-corner).
IsCornerScenario ==
    /\ Len(blocks) = 3
    /\ CallerBlocks[1] = NewBlock("A", 10, 10, DontCare, None)
    /\ CallerBlocks[2] = NewBlock("B", 10, 10, DontCare, "A")
    /\ CallerBlocks[3] = NewBlock("C", 20, 5, "top-left-corner", None)

\* C8: for that input the returned layout has C at (0,0), A and B
\* abutting, and no overlapping pair.
CornerScenarioLayout ==
    Returned /\ IsCornerScenario =>
        /\ ReturnedBlock("C").x = 0 /\ ReturnedBlock("C").y = 0
        /\ abuts(ReturnedBlock("A"), ReturnedBlock("B"))
        /\ ~has_overlaps(ReturnedBlocks)

\* The temperature steps of the call's schedule.
StepsOfCall ==
    IF initial_temp = code_initial_temp THEN schedule_steps
    ELSE CHOOSE k \in 1..Len(schedule_tail) : schedule_tail[k] = initial_temp

\* The loops are within their budgets.
WithinBudgets ==
    /\ iter <= iterations_per_temp
    /\ step <= StepsOfCall
    /\ (pc \in {"enforce", "compact"} \/ (Returned /\ blocks # <<>>)) =>
          step = StepsOfCall
    /\ last.passes <= max_iterations_optimize
    /\ tried # <<>> => tried.passes <= max_iterations_optimize
    /\ post.iteration <= max_iterations_enforce
    /\ post.passes <= max_passes

\* A step inside the annealing loop is a candidate, which takes one of the
\* iterations of the temperature step, or the cooling after the last one.
CandidateOrCooling ==
    pc = "annealing" /\ pc' = "annealing" =>
        \/ /\ iter < iterations_per_temp
           /\ iter' = iter + 1 /\ step' = step /\ temperature' = temperature
           /\ last'.outcome \in {"hard_reject", "reject", "accept"}
        \/ /\ iter = iterations_per_temp
           /\ iter' = 0 /\ step' = step + 1 /\ temperature' < temperature

\* A bound on the steps the call still takes: those of the post-pass, of
\* the annealing loop (a cooling after the iterations of each temperature
\* step), and the ones before the loop.
PostPassLeft == (max_iterations_enforce - post.iteration) + 1

AnnealingLeft ==
    (StepsOfCall - step) * (iterations_per_temp + 1) - iter + 1
    + max_iterations_enforce + 1

StepsLeft ==
    CASE pc = "done" -> 0
      [] pc = "compact" -> 1
      [] pc = "enforce" -> PostPassLeft
      [] pc = "annealing" -> AnnealingLeft
      [] pc = "initial" -> AnnealingLeft + 1
      [] pc = "copied" -> AnnealingLeft + 2
      [] pc = "start" -> AnnealingLeft + 3

\* A next step of the call exists: the guard of one of the steps at the
\* call's position holds.  In the annealing loop a candidate exists for one
\* of the perturbations, and whatever the candidate is, it is hard-rejected,
\* accepted or rejected.
NextStepExists ==
    CASE pc = "start" ->
            \/ blocks = <<>>
            \/ \E i \in 1..Len(blocks) : InvalidDimensions(heap[blocks[i]])
            \/ InvalidAspectRatio(max_aspect_ratio)
            \/ ~InvalidAspectRatio(max_aspect_ratio)
      [] pc \in {"copied", "initial", "compact"} -> TRUE
      [] pc = "annealing" ->
            \/ temperature <= final_temp
            \/ iter = iterations_per_temp
            \/ /\ iter < iterations_per_temp
               /\ \E perturbation \in Perturbations :
                     generate_neighbor(Vals(heap, current.blocks), perturbation) # {}
      [] pc = "enforce" ->
            \/ DOMAIN post.corner_blocks = {}
            \/ /\ post.iteration < max_iterations_enforce
               /\ IterationOrders(Stored(best), post.corner_blocks) # {}
      [] pc = "done" -> FALSE

\* C9: a call that passes validation returns a layout: a next step exists
\* until it has returned, and every step lowers a bound on the steps left;
\* the annealing loop runs the temperature steps of its schedule, exactly
\* iterations_per_temp candidates at each, a hard-rejected one included, and
\* every loop ends within its pass budget.
ValidCallTerminates ==
    /\ [](WithinBudgets /\ StepsLeft >= 0)
    /\ [](PassesValidation => IF pc = "done" THEN Returned ELSE NextStepExists)
    /\ [][CandidateOrCooling /\ StepsLeft' < StepsLeft]_vars

\* The whole schedule has run, and a layout is returned.
WholeScheduleRun ==
    Returned /\ initial_temp = code_initial_temp /\ step = schedule_steps

\* The blocks the call has built: every object but the caller's.
BuiltBlocks == {heap[k] : k \in (1..Len(heap)) \ Range(blocks)}

TiedToRotatedFlag(b) ==
    /\ b.width > 0 /\ b.height > 0
    /\ ~b.rotated => b.width = b.original_width /\ b.height = b.original_height
    /\ b.rotated => b.width = b.original_height /\ b.height = b.original_width

\* C10: every block of every layout the call builds has width > 0 and
\* height > 0, the original dimensions when rotated is false and the
\* original dimensions exchanged when rotated is true.
DimensionsTiedToRotatedFlag ==
    /\ \A b \in BuiltBlocks : TiedToRotatedFlag(b)
    /\ tried # <<>> =>
          \A b \in Range(tried.corners_first.blocks) \cup Range(tried.row_based.blocks)
                   \cup Range(tried.column_based.blocks) : TiedToRotatedFlag(b)

\* A returned block that is rotated and not square.
RotatedBlockReturned ==
    /\ Returned
    /\ \E i \in 1..Len(ReturnedBlocks) :
          ReturnedBlocks[i].rotated /\ ReturnedBlocks[i].width # ReturnedBlocks[i].height

\* C12: the bounding box stored in the returned layout is the one of the
\* returned blocks: the largest x + width by the largest y + height, 0 by 0
\* for the empty layout, with or without corner blocks in the post-pass.
ReturnedBoundingBoxIsUpToDate ==
    Returned =>
        /\ result.floorplan.bounding_width = bounding_width(ReturnedBlocks)
        /\ result.floorplan.bounding_height = bounding_height(ReturnedBlocks)
        /\ ReturnedBlocks = <<>> =>
              result.floorplan.bounding_width = 0 /\ result.floorplan.bounding_height = 0

\* A layout is returned by the post-pass that found no corner block, its
\* bounding box not the one of the initial layout.
ReturnedAsAnnealed ==
    /\ Returned
    /\ Len(ReturnedBlocks) >= 2
    /\ DOMAIN post.corner_blocks = {}
    /\ result.floorplan.bounding_width # initial_floorplan.bounding_width

\* The places of block i in the groups: group and position in it.
PlacesOf(groups, i) ==
    {p \in (1..Len(groups)) \X (1..MaxGrouped + 1) :
        p[2] <= Len(groups[p[1]]) /\ groups[p[1]][p[2]] = i}

\* C14: for every list of blocks with unique names the grouping ends, in
\* at most as many groups as there are blocks, every block is in exactly
\* one group, no group is empty, and a block is in the
\* group of the block of the list it names as its neighbor.
GroupsPartitionTheBlocks ==
    /\ pc = "group" => Len(group_neighbors(CallerBlocks)) <= Len(blocks)
    /\ pc = "grouped" =>
          /\ result.kind = "groups"
          /\ \A i \in 1..Len(blocks) : Cardinality(PlacesOf(result.groups, i)) = 1
          /\ \A g \in 1..Len(result.groups) :
                /\ result.groups[g] # <<>>
                /\ Range(result.groups[g]) \subseteq 1..Len(blocks)
          /\ \A i, j \in 1..Len(blocks) :
                CallerBlocks[i].neighbor = CallerBlocks[j].name =>
                    \E g \in 1..Len(result.groups) :
                        {i, j} \subseteq Range(result.groups[g])

\* A list with a cycle, a block naming itself and a block naming an absent
\* block was grouped, into more than one group.
CycleAndAbsentGrouped ==
    /\ pc = "grouped"
    /\ Len(result.groups) >= 2
    /\ \E i \in 1..Len(blocks) : CallerBlocks[i].neighbor = Absent
    /\ \E i \in 1..Len(blocks) : CallerBlocks[i].neighbor = CallerBlocks[i].name
    /\ \E i, j \in 1..Len(blocks) :
          /\ i # j
          /\ CallerBlocks[i].neighbor = CallerBlocks[j].name
          /\ CallerBlocks[j].neighbor = CallerBlocks[i].name

\* Block b, of the floorplan handed to compaction, is as the strategy left
\* it in p, whose coordinates are multiplied by scale.
AsProduced(b, p, scale) ==
    /\ b.name = p.name /\ b.rotated = p.rotated
    /\ scale * b.x = p.x /\ scale * b.y = p.y
    /\ scale * b.width = p.width /\ scale * b.height = p.height

\* C15: the floorplan that _get_initial_solution hands to compaction has the
\* block positions and orientations that the selected strategy produced.
SelectedStrategyIsKept ==
    tried # <<>> =>
        \A k \in 1..Len(tried.handed) :
            AsProduced(tried.handed[k], tried[tried.selected].blocks[k],
                       tried[tried.selected].scale)

\* C16: the initial layout handed to the annealing has no overlapping pair
\* of blocks.
InitialLayoutIsLegal ==
    pc \notin {"start", "copied"} /\ PassesValidation =>
        ~has_overlaps(Vals(heap, initial_floorplan.blocks))

\* The step is one iteration of the inner loop of the annealing: a candidate
\* was generated from current and judged.
Iteration == pc = "annealing" /\ pc' = "annealing" /\ iter' = iter + 1

\* C17: a candidate with an overlapping pair is hard-rejected: its blocks are
\* neither those of current nor those of best after the iteration, which
\* leaves current, current_cost, best and best_cost as they were; and when
\* the initial layout has no overlap, current and best have none after
\* every iteration.
OverlappingCandidateNeverAccepted ==
    /\ [][Iteration /\ has_overlaps(Vals(heap', last'.neighbor.blocks)) =>
            /\ last'.outcome = "hard_reject"
            /\ Range(last'.neighbor.blocks)
                   \cap (Range(current'.blocks) \cup Range(best'.blocks)) = {}
            /\ Stored(current)' = Stored(current)
            /\ Stored(best)' = Stored(best)
            /\ current_cost' = current_cost
            /\ best_cost' = best_cost]_vars
    /\ [](pc = "annealing"
            /\ ~has_overlaps(Vals(heap, initial_floorplan.blocks)) =>
                /\ ~has_overlaps(Vals(heap, current.blocks))
                /\ ~has_overlaps(Vals(heap, best.blocks)))

\* An overlapping candidate was just hard-rejected, in a run whose current
\* layout has no overlap and is no longer the initial one.
OverlappingCandidateRejected ==
    /\ pc = "annealing"
    /\ last.outcome = "hard_reject"
    /\ has_overlaps(Vals(heap, last.neighbor.blocks))
    /\ ~has_overlaps(Vals(heap, current.blocks))
    /\ Vals(heap, current.blocks) # Vals(heap, initial_floorplan.blocks)

\* The cost of the blocks of floorplan fp, computed anew.
CostOf(fp) == calculate_cost(Vals(heap, fp.blocks), max_aspect_ratio)

\* C18: in the annealing run best_cost and current_cost are the costs of
\* best and of current, both the initial cost at the start; an accepted
\* candidate lowers best_cost to its cost when that is smaller, and nothing
\* else changes best_cost, so best_cost <= current_cost and best_cost never
\* goes up; a candidate without overlap whose cost is below current_cost is
\* accepted as current; and the post-pass receives best, which is returned.
BestIsTheCheapestAccepted ==
    /\ [](pc = "annealing" =>
            /\ 0 <= best_cost /\ best_cost <= current_cost
            /\ best_cost = CostOf(best)
            /\ current_cost = CostOf(current))
    /\ [][pc = "initial" /\ pc' = "annealing" =>
            /\ best_cost' = CostOf(initial_floorplan)
            /\ current_cost' = CostOf(initial_floorplan)]_vars
    /\ [][pc = "annealing" /\ pc' = "annealing" =>
            /\ best_cost' <= best_cost
            /\ best_cost' =
                  IF Iteration /\ last'.outcome = "accept"
                  THEN Min(best_cost, CostOf(last.neighbor)')
                  ELSE best_cost]_vars
    /\ [][Iteration /\ ~has_overlaps(Vals(heap', last'.neighbor.blocks))
              /\ CostOf(last.neighbor)' < current_cost =>
            /\ last'.outcome = "accept"
            /\ current'.blocks = last'.neighbor.blocks
            /\ current_cost' = CostOf(last.neighbor)']_vars
    /\ [][pc = "annealing" /\ pc' = "enforce" =>
            Stored(best)' = Stored(best) /\ best_cost' = best_cost]_vars
    /\ [](pc = "enforce" /\ post.iteration = 0 => CostOf(best) = best_cost)
    /\ [](Returned /\ blocks # <<>> /\ DOMAIN post.corner_blocks = {} =>
            CostOf(result.floorplan) = best_cost)

\* The last candidate was accepted at a cost above that of best, which is a
\* layout cheaper than the initial one.
BestKeptWhileCurrentWorsens ==
    /\ pc = "annealing"
    /\ last.outcome = "accept"
    /\ best_cost < current_cost
    /\ best_cost < CostOf(initial_floorplan)

\* The floorplans share no block object.
NoSharedBlock(fp, other) == Range(fp.blocks) \cap Range(other.blocks) = {}

\* C19: in the annealing run the initial layout, current and best share no
\* block object, and the candidate shares none with best, nor with current
\* unless it has become current; an iteration changes no block and no order
\* of best unless the accepted candidate is snapshotted as best at a lower
\* cost, and none of current unless the candidate is accepted.
LayoutsShareNoBlock ==
    /\ [](pc = "annealing" =>
            /\ NoSharedBlock(current, best)
            /\ NoSharedBlock(initial_floorplan, current)
            /\ NoSharedBlock(initial_floorplan, best)
            /\ NoSharedBlock(last.neighbor, best)
            /\ NoSharedBlock(last.neighbor, initial_floorplan)
            /\ last.outcome # "accept" => NoSharedBlock(last.neighbor, current))
    /\ [][Iteration =>
            /\ \/ Stored(best)' = Stored(best)
               \/ /\ last'.outcome = "accept" /\ best_cost' < best_cost
                  /\ Stored(best)' = Stored(last.neighbor)'
            /\ last'.outcome # "accept" => Stored(current)' = Stored(current)
            /\ Stored(initial_floorplan)' = Stored(initial_floorplan)]_vars

\* In a later temperature step current has moved on from the layout that
\* was snapshotted as best, which is not the initial one.
SnapshotOutlivesCurrent ==
    /\ pc = "annealing" /\ step >= 1
    /\ last.outcome = "accept"
    /\ Vals(heap, best.blocks) # Vals(heap, initial_floorplan.blocks)
    /\ Vals(heap, current.blocks) # Vals(heap, best.blocks)

\* Twice the constraint term and twice the overlap penalty of _calculate_cost
\* for the blocks bs.
ConstraintTerm2(bs) ==
    (calculate_location_penalty2(bs) + 2 * calculate_neighbor_penalty(bs))
        * bounding_width(bs) * bounding_height(bs) * 10000

OverlapPenalty2(bs) == 2 * bounding_width(bs) * bounding_height(bs) * 100000

\* C20: the constraint term of the cost of a layout is below the overlap
\* penalty of its area, and of two layouts with the same bounding box, one
\* with an overlapping pair and one without, the first costs more.
OverlapTermDominates ==
    /\ pc = "costed" /\ current.blocks # <<>> =>
          /\ ConstraintTerm2(Vals(heap, current.blocks))
                < OverlapPenalty2(Vals(heap, current.blocks))
          /\ ConstraintTerm2(Vals(heap, best.blocks))
                < OverlapPenalty2(Vals(heap, best.blocks))
    /\ pc = "costed"
          /\ current.bounding_width = best.bounding_width
          /\ current.bounding_height = best.bounding_height
          /\ ~has_overlaps(Vals(heap, current.blocks))
          /\ has_overlaps(Vals(heap, best.blocks)) => best_cost > current_cost

\* The blocks of bs whose named neighbor is not in bs, or is and does not
\* abut them.
Unsatisfied(bs) ==
    {i \in 1..Len(bs) :
        /\ bs[i].neighbor # None
        /\ \A j \in 1..Len(bs) :
              bs[j].name = bs[i].neighbor => ~abuts(bs[i], bs[j])}

\* Twice the cost the claim states for the blocks bs of bounding box bw by
\* bh, m being max_aspect_ratio in halves: with aspect_ratio = long / short,
\* area * (aspect_ratio - max_aspect_ratio) * 100 is
\* (long * long - max_aspect_ratio * area) * 100.
StatedCost2(bs, bw, bh, m) ==
    LET area == bw * bh
        long == IF bw >= bh THEN bw ELSE bh
        short == IF bw >= bh THEN bh ELSE bw
        aspect_penalty2 ==
            IF 2 * long > m * short
            THEN (2 * long * long - m * area) * 100
            ELSE long * long - area
        overlap_penalty2 ==
            IF \E i, j \in 1..Len(bs) : i # j /\ overlaps(bs[i], bs[j])
            THEN 2 * area * 100000 ELSE 0
    IN 2 * area + aspect_penalty2 + overlap_penalty2
       + (calculate_location_penalty2(bs) + 2 * Cardinality(Unsatisfied(bs)))
            * area * 10000

\* The cost returned for floorplan fp, whose bounding box the call stored,
\* is the stated one.
CostAsStated(fp, cost) ==
    /\ cost = Infinity <=> fp.bounding_width = 0 \/ fp.bounding_height = 0
    /\ cost # Infinity =>
          cost = StatedCost2(Vals(heap, fp.blocks), fp.bounding_width,
                             fp.bounding_height, max_aspect_ratio)
    /\ fp.blocks # <<>> => cost # Infinity /\ cost > 0

\* C21: _calculate_cost returns infinity exactly when the bounding width or
\* height is 0, and otherwise the sum of the area, the aspect penalty of its
\* case, the overlap penalty when a pair overlaps, and the location and
\* neighbor penalties times area * 10000, one neighbor penalty for each
\* block whose named neighbor is absent or does not abut it; the cost of a
\* layout with blocks is finite.
CostIsAsStated ==
    /\ pc \in {"cost_of_best", "costed"} => CostAsStated(current, current_cost)
    /\ pc = "costed" => CostAsStated(best, best_cost)

\* The cost of an overlapping layout beyond the ratio bound was computed, in
\* which a block names an absent neighbor.
OverlappingLayoutCosted ==
    /\ pc = "costed"
    /\ has_overlaps(Vals(heap, best.blocks))
    /\ 2 * best.bounding_width > max_aspect_ratio * best.bounding_height
    /\ \E i \in 1..Len(best.blocks) : heap[best.blocks[i]].neighbor = Absent

\* C22: after the move, before the compaction, the present neighbor that the
\* moved block names has been displaced as the moved block has, and a pair
\* that abutted before the move abuts after it.
MoveTakesNeighborAlong ==
    pc = "moved" =>
        LET before == last.before
            after == Vals(heap, current.blocks)
            i == last.block
        IN \A n \in 1..Len(before) :
              n # i /\ before[n].name = before[i].neighbor =>
                  /\ after[n].x - before[n].x = after[i].x - before[i].x
                  /\ after[n].y - before[n].y = after[i].y - before[i].y
                  /\ abuts(before[i], before[n]) => abuts(after[i], after[n])

\* A block under a strict corner constraint, by either name of the tag.
UnderCornerConstraint(b) == Legacy(b.preferred_location) \in CornerTags

\* C23: _optimize_placement leaves every block under a strict corner
\* constraint where it is, whichever name the tag is written with, and it
\* shifts every other block that has room: the first block of the
\* floorplan moves left when one unit to its left is free for it.
LocalCompactionSparesCorners ==
    pc = "optimized" =>
        LET before == last.before
            after == Vals(heap, current.blocks)
        IN /\ \A i \in 1..Len(before) :
                 UnderCornerConstraint(before[i]) =>
                     after[i].x = before[i].x /\ after[i].y = before[i].y
           /\ ~UnderCornerConstraint(before[1]) /\ before[1].x > 0
                 /\ ~Blocked([before EXCEPT ![1].x = before[1].x - 1], 1) =>
                     after[1].x < before[1].x

\* The pass from before to after introduces no overlap, changes no block
\* but in its coordinates, and leaves the coordinates non-negative.
KeepsLegal(before, after) ==
    /\ ~has_overlaps(before) => ~has_overlaps(after)
    /\ \A i \in 1..Len(before) :
          /\ after[i] = [before[i] EXCEPT !.x = after[i].x, !.y = after[i].y]
          /\ after[i].x >= 0 /\ after[i].y >= 0

\* No block is further right or further down after the pass.
OnlyLeftOrUp(before, after) ==
    \A i \in 1..Len(before) : after[i].x <= before[i].x /\ after[i].y <= before[i].y

\* C24 as stated: neither compaction introduces an overlap, changes a
\* dimension or leaves a negative coordinate, and neither moves a block
\* right or down.
CompactionsOnlyMoveLeftOrUp ==
    pc \in {"optimized", "compacted"} =>
        /\ KeepsLegal(last.before, Vals(heap, current.blocks))
        /\ OnlyLeftOrUp(last.before, Vals(heap, current.blocks))

\* C24: neither compaction introduces an overlap, changes a dimension or
\* leaves a negative coordinate, and _optimize_placement moves no block right
\* or down.
CompactionsKeepLegal ==
    /\ pc \in {"optimized", "compacted"} =>
          KeepsLegal(last.before, Vals(heap, current.blocks))
    /\ pc = "optimized" => OnlyLeftOrUp(last.before, Vals(heap, current.blocks))

\* The final packing of _compact_with_locked_corners has moved a block of a
\* layout without overlap to the right.
PackedToTheRight ==
    /\ pc = "compacted"
    /\ ~has_overlaps(last.before)
    /\ \E i \in 1..Len(last.before) : heap[current.blocks[i]].x > last.before[i].x

\* The identified corner blocks.
CornerBlockSet == {post.corner_blocks[tag] : tag \in DOMAIN post.corner_blocks}

\* C25: the overlap resolution of an iteration relocates no corner block:
\* none is in the set of blocks to relocate, and each is where the snapping
\* left it.
CornerBlocksNotRelocated ==
    pc = "snapped" =>
        \A i \in CornerBlockSet :
            /\ i \notin Range(last.order)
            /\ heap[current.blocks[i]] = last.snapped.bs[i]

\* The candidates of the scan for the floorplan st: range(0, bw + 100, 50)
\* by range(0, bh + 100, 50).
GridCandidates(st) ==
    {k * relocate_step : k \in 0..(RangeLen(st.bw + 100, relocate_step) - 1)}
        \X {k * relocate_step : k \in 0..(RangeLen(st.bh + 100, relocate_step) - 1)}

\* The overlap count of block i of bs at the place p.
CountAt(bs, i, p) == overlap_count([bs EXCEPT ![i].x = p[1], ![i].y = p[2]], i)

\* p comes before q in the scan: x ascending, then y ascending.
ScannedBefore(p, q) == p[1] < q[1] \/ (p[1] = q[1] /\ p[2] < q[2])

\* C26: the first block that is relocated, when it is no corner block, is
\* placed at the first candidate of the scan at which it overlaps no block,
\* and, when there is none, at a candidate of the least overlap count.
RelocatedToFirstFreeCandidate ==
    pc = "snapped" /\ last.order # <<>> /\ last.order[1] \notin CornerBlockSet =>
        LET i == last.order[1]
            bs == last.snapped.bs
            grid == GridCandidates(last.snapped)
            free == {p \in grid : CountAt(bs, i, p) = 0}
            at == <<heap[current.blocks[i]].x, heap[current.blocks[i]].y>>
        IN /\ at \in grid
           /\ IF free # {}
              THEN at \in free /\ \A p \in free : ~ScannedBefore(p, at)
              ELSE \A p \in grid : CountAt(bs, i, at) <= CountAt(bs, i, p)

\* The largest height among the blocks of bs in the row at y.
RowHeight(bs, y) == SetMax({bs[k].height : k \in {j \in 1..Len(bs) : bs[j].y = y}})

\* The blocks bs are in rows, in list order: the first at the origin, each
\* other right of the one before it, or at the left border and below the
\* row before by the largest height of that row.
InRows(bs) ==
    /\ bs[1].x = 0 /\ bs[1].y = 0
    /\ \A k \in 2..Len(bs) :
          \/ bs[k].y = bs[k - 1].y /\ bs[k].x = bs[k - 1].x + bs[k - 1].width
          \/ bs[k].x = 0 /\ bs[k].y = bs[k - 1].y + RowHeight(bs, bs[k - 1].y)
    /\ \A i, j \in 1..Len(bs) :
          i < j /\ bs[i].y = bs[j].y => bs[i].x + bs[i].width <= bs[j].x

\* C27: whatever the layout and the shuffle, the repacked layout is in rows
\* and has no overlap, before the compaction and after it, and it has the
\* blocks of the layout, with their dimensions.
RepackIsOverlapFree ==
    pc = "repacked" =>
        /\ InRows(last.packed)
        /\ ~has_overlaps(last.packed)
        /\ ~has_overlaps(Vals(heap, current.blocks))
        /\ {[b EXCEPT !.x = 0, !.y = 0] : b \in Range(last.packed)}
              = {[b EXCEPT !.x = 0, !.y = 0] : b \in Range(last.before)}

\* An overlapping layout was repacked into more than one row.
OverlappingLayoutRepacked ==
    /\ pc = "repacked"
    /\ has_overlaps(last.before)
    /\ \E k \in 1..Len(last.packed) : last.packed[k].y > 0

\* What a block is, whatever its place and orientation.
Given(b) ==
    [name |-> b.name, preferred_location |-> b.preferred_location,
     neighbor |-> b.neighbor, original_width |-> b.original_width,
     original_height |-> b.original_height]

\* The list bs has the caller's blocks, each once.
AreTheCallersBlocks(bs) ==
    /\ Len(bs) = Len(blocks)
    /\ \A i \in 1..Len(blocks) :
          Cardinality({k \in 1..Len(bs) : Given(bs[k]) = Given(heap[blocks[i]])}) = 1

HasTheCallersBlocks(fp) == AreTheCallersBlocks(Vals(heap, fp.blocks))

\* C28: in a call that passes validation, the layout of each of the three
\* strategies, the initial layout, current, best, every candidate and the
\* returned layout have the caller's blocks, each exactly once, with the
\* name, preference, neighbor and original dimensions it was given.
BlocksAreConserved ==
    /\ tried # <<>> =>
          /\ AreTheCallersBlocks(tried.corners_first.blocks)
          /\ AreTheCallersBlocks(tried.row_based.blocks)
          /\ AreTheCallersBlocks(tried.column_based.blocks)
          /\ AreTheCallersBlocks(tried.handed)
    /\ PassesValidation /\ pc \notin {"start", "copied"} =>
          HasTheCallersBlocks(initial_floorplan)
    /\ pc = "annealing" =>
          /\ HasTheCallersBlocks(current) /\ HasTheCallersBlocks(best)
          /\ last.outcome # "none" => HasTheCallersBlocks(last.neighbor)
    /\ pc \in {"enforce", "compact"} => HasTheCallersBlocks(best)
    /\ Returned => HasTheCallersBlocks(result.floorplan)

\* A layout of three blocks, two of them in one neighbor group, is returned
\* after a candidate was accepted.
GroupedBlocksReturned ==
    /\ Returned
    /\ Len(blocks) >= 3
    /\ \E g \in 1..Len(neighbor_groups) : Len(neighbor_groups[g]) >= 2
    /\ ReturnedBlocks # Vals(heap, initial_floorplan.blocks)

\* C29: the row-based strategy never meets its new-row condition, because
\* max_width >= current_x holds before every group, so it hands every group
\* to _place_group_at at y = 0, in a single row; the column-based strategy
\* never starts a new column and hands every group over at x = 0.  The
\* loops end with the layouts of _place_row_based and _place_column_based.
StrategiesNeverWrap ==
    /\ pc \in {"rows", "row_placed"} => tried.longest >= tried.current_x
    /\ pc \in {"columns", "column_placed"} => tried.longest >= tried.current_y
    /\ last.op \in {"row", "column"} => ~last.wrapped
    /\ last.op = "row" => last.y = 0 /\ last.x = last.entered_at
    /\ last.op = "column" => last.x = 0 /\ last.y = last.entered_at
    /\ pc = "row_placed" =>
          tried.st = place_row_based(last.given, neighbor_groups)
    /\ pc = "column_placed" =>
          tried.st = place_column_based(last.given, neighbor_groups)

\* The row-based strategy placed three groups, the last one to the right of
\* the others, with blocks of different widths.
ThreeGroupsInOneRow ==
    /\ pc = "row_placed"
    /\ Len(neighbor_groups) = 3
    /\ last.entered_at > 0
    /\ \E i, j \in 1..3 : last.given[i].width # last.given[j].width

\* The block prefers an exact corner, by its canonical or its legacy tag.
PrefersExactCorner(b) == Legacy(b.preferred_location) \in CornerTags

NoExactCornerIn(bs) == \A i \in 1..Len(bs) : ~PrefersExactCorner(bs[i])

Called(op) == last' # last /\ last'.op = op

\* C11: a second rotate right after a rotate of the same block gives back
\* the width, the height and the rotated flag the block had before the two
\* (the original ones and rotated = false for a block never rotated);
\* reset_rotation leaves rotated = false with the original dimensions, and
\* a second reset_rotation changes nothing.
RotateIsAnInvolution ==
    /\ [][Called("rotate") /\ last.op = "rotate" /\ last'.block = last.block
            => heap'[last.block] = last.before]_vars
    /\ [][Called("reset_rotation") =>
            LET b == heap'[last'.block]
            IN /\ ~b.rotated
               /\ b.width = b.original_width /\ b.height = b.original_height
               /\ reset_rotation(b) = b]_vars
    /\ [][Called("reset_rotation") /\ last.op = "reset_rotation"
            /\ last'.block = last.block => heap' = heap]_vars

\* A block that is not square was rotated and rotated back.
RotatedTwice ==
    /\ pc = "blocks"
    /\ last.op = "rotate"
    /\ last.before.rotated /\ last.before.width # last.before.height
    /\ heap[last.block] = NewBlock(last.before.name, last.before.original_width,
                                   last.before.original_height, DontCare, None)

\* The length of what the intervals [a, a + m] and [b, b + n] share, when
\* positive.
Shared(a, m, b, n) == Min(a + m, b + n) - Max(a, b)

\* One block's right edge is the other's left edge, or its bottom edge the
\* other's top edge, and the two edges share a segment of positive length.
EdgeToEdge(a, b) ==
    \/ /\ a.x + a.width = b.x \/ b.x + b.width = a.x
       /\ Shared(a.y, a.height, b.y, b.height) > 0
    \/ /\ a.y + a.height = b.y \/ b.y + b.height = a.y
       /\ Shared(a.x, a.width, b.x, b.width) > 0

\* The rectangles meet in one corner point only.
CornerToCorner(a, b) ==
    /\ a.x + a.width = b.x \/ b.x + b.width = a.x
    /\ a.y + a.height = b.y \/ b.y + b.height = a.y

\* C13: abuts is symmetric, true exactly when the two blocks are edge to
\* edge, false for blocks that touch in a corner point and for a block and
\* itself, and never true together with overlaps.
AbutsIsEdgeToEdge ==
    /\ result.kind = "abuts" =>
          /\ result.value = EdgeToEdge(result.self, result.other)
          /\ result.value = abuts(result.other, result.self)
          /\ CornerToCorner(result.self, result.other) => ~result.value
          /\ result.same => ~result.value
          /\ result.value => ~overlaps(result.self, result.other)
    /\ result.kind = "overlaps" /\ result.value =>
          ~abuts(result.self, result.other)

\* Two blocks abut along a part of an edge.
PartialEdgeAbuts ==
    /\ result.kind = "abuts" /\ result.value
    /\ result.self.x + result.self.width = result.other.x
    /\ result.self.y < result.other.y
    /\ result.self.y + result.self.height < result.other.y + result.other.height

====
